---- MODULE Spec2Model ----
(***************************************************************************)
(* State-machine model of the session/authentication core and of the       *)
(* request pipeline of the admin application (oornnery/site).              *)
(*                                                                         *)
(*   Spec          accounts, token codec, session resolver, login/logout   *)
(*   SpecSecurity  SecurityMiddleware inside PageviewMiddleware, inputs    *)
(*                 varying the headers the cross-origin guard reads        *)
(*   SpecPageview  the same pipeline, inputs varying what the pageview     *)
(*                 capture reads                                           *)
(*   SpecComments  comments of the blog API and their moderation           *)
(*   SpecApi       mutations of the admin API and their audit-log rows     *)
(*   SpecStream    the audit event stream next to those mutations          *)
(*   SpecHome      the project list of the portfolio home page             *)
(*   SpecReactions reaction requests interleaved at their awaits           *)
(***************************************************************************)
EXTENDS Integers, Sequences, FiniteSets, TLC

VARIABLES
    users,            \* the users table: id -> row
    now,              \* the wall clock, in minutes
    secret,           \* settings.SECRET_KEY of the running process
    minted,           \* every token create_access_token has returned
    jar,              \* the browser's access_token cookie (NoCookie when absent)
    cleared,          \* cookie values the browser held when a logout was answered
    mintedBeforeBan,  \* tokens that existed for an account when it was banned
    resp,             \* what the most recent request was and how it was answered
    env,              \* settings.ENV
    pageviews,        \* the pageviews table, in creation order
    tasks,            \* detached _store_pageview tasks not yet run
    dropped,          \* how many detached tasks ended without writing a row
    scheduled,        \* how many detached tasks asyncio.create_task has started
    mw,               \* the most recent request through the pipeline and its response
    store,            \* per content table, the writes admin routes have committed
    contact_messages, \* the contact_messages table, in creation order
    posts,            \* the posts table: id -> row
    projects,         \* the projects table: id -> row
    comments,         \* the comments table, in creation order
    reactions,        \* the reactions table, in creation order
    audit_logs,       \* the audit_logs table, in creation order
    settings,         \* the settings row with id 1, <<>> when absent
    uuids,            \* how many ids uuid4 has produced for posts and projects
    uploads,          \* how many files _save_upload has written
    calls             \* per connection, the handler running on it: its locals and position

authVars == <<users, now, secret, minted, jar, cleared, mintedBeforeBan, resp>>
pipeVars == <<env, pageviews, tasks, dropped, scheduled, mw>>
dataVars == <<posts, projects, comments, reactions, audit_logs, settings, uuids,
              uploads, calls>>
contentVars == <<store, contact_messages, posts, projects, comments, reactions,
                 audit_logs, settings, uuids, uploads, calls>>
vars == <<users, now, secret, minted, jar, cleared, mintedBeforeBan, resp,
          env, pageviews, tasks, dropped, scheduled, mw, store, contact_messages,
          posts, projects, comments, reactions, audit_logs, settings, uuids,
          uploads, calls>>

(***************************************************************************)
(* Bounds of the model.                                                    *)
(***************************************************************************)
MaxLifetimes == 1     \* token lifetimes after which the clock stops advancing
MaxMinted == 2        \* tokens minted in one behaviour
MaxRestarts == 1      \* process restarts that generate a new SECRET_KEY
MaxPageviews == 2     \* pageview writes scheduled in one behaviour
MaxWrites == 1        \* writes admin routes commit to one content table
MaxMessages == 2      \* contact messages stored in one behaviour
MaxComments == 4      \* rows of the comments table before requests stop adding
MaxAudit == 3         \* rows of the audit_logs table
MaxCalls == 2         \* connections with a handler in progress at the same time
MaxUuids == 11        \* ids drawn for posts and projects, the seed's ten included
MaxPolls == 3         \* events one audit stream emits
MaxReactionCalls == 3 \* reaction requests in one behaviour

(***************************************************************************)
(* Python string operations, computed on TLA+ strings.                     *)
(***************************************************************************)
StartsWith(s, p) == Len(s) >= Len(p) /\ SubSeq(s, 1, Len(p)) = p

\* i is a position of s where sep starts
OccursAt(s, sep, i) == i + Len(sep) - 1 <= Len(s) /\ SubSeq(s, i, i + Len(sep) - 1) = sep

Occurrences(s, sep) == {i \in 1..Len(s) : OccursAt(s, sep, i)}

\* sub in s
Contains(s, sub) == sub = "" \/ Occurrences(s, sub) # {}

MinOf(S) == CHOOSE i \in S : \A j \in S : i <= j
MaxOf(S) == CHOOSE i \in S : \A j \in S : j <= i

\* s.split(sep)[0]
SplitFirst(s, sep) ==
    IF Occurrences(s, sep) = {} THEN s
    ELSE SubSeq(s, 1, MinOf(Occurrences(s, sep)) - 1)

\* s.split(sep)[-1]
SplitLast(s, sep) ==
    IF Occurrences(s, sep) = {} THEN s
    ELSE SubSeq(s, MaxOf(Occurrences(s, sep)) + Len(sep), Len(s))

UpperAlphabet == "ABCDEFGHIJKLMNOPQRSTUVWXYZ"
LowerAlphabet == "abcdefghijklmnopqrstuvwxyz"

\* upper-case letter -> lower-case letter
LowerTable ==
    [c \in {SubSeq(UpperAlphabet, i, i) : i \in 1..Len(UpperAlphabet)} |->
        LET i == CHOOSE j \in 1..Len(UpperAlphabet) : SubSeq(UpperAlphabet, j, j) = c
        IN  SubSeq(LowerAlphabet, i, i)]

LowerChar(c) == IF c \in DOMAIN LowerTable THEN LowerTable[c] ELSE c

RECURSIVE Lower(_)
\* s.lower()
Lower(s) == IF s = "" THEN "" ELSE LowerChar(SubSeq(s, 1, 1)) \o Lower(Tail(s))

(***************************************************************************)
(* Accounts.  A UUID value is its 32 hexadecimal digits; str() writes the  *)
(* canonical 8-4-4-4-12 form and UUID() parses a string back.              *)
(***************************************************************************)
AdminId == "00000000000040008000000000000001"
OtherId == "00000000000040008000000000000002"
UserIds == {AdminId, OtherId}

HexDigits == "0123456789abcdef"
HexDigitSet == {SubSeq(HexDigits, i, i) : i \in 1..Len(HexDigits)}

\* str(uuid)
UuidStr(u) ==
    SubSeq(u, 1, 8) \o "-" \o SubSeq(u, 9, 12) \o "-" \o SubSeq(u, 13, 16)
        \o "-" \o SubSeq(u, 17, 20) \o "-" \o SubSeq(u, 21, 32)

RECURSIVE RemoveChar(_, _)
\* s.replace(c, "")
RemoveChar(s, c) ==
    IF s = "" THEN ""
    ELSE (IF SubSeq(s, 1, 1) = c THEN "" ELSE SubSeq(s, 1, 1)) \o RemoveChar(Tail(s), c)

\* uuid.UUID(s): <<value>>, or <<>> where Python raises ValueError
ParseUUID(s) ==
    LET hex == Lower(RemoveChar(s, "-"))
    IN  IF Len(hex) = 32 /\ \A i \in 1..32 : SubSeq(hex, i, i) \in HexDigitSet
        THEN <<hex>>
        ELSE <<>>

\* the strings a token's subject claim takes in this model, parsed once
SubjectStrings == {UuidStr(u) : u \in UserIds} \cup {"", "not-a-uuid"}
ParsedSubject == [s \in SubjectStrings |-> ParseUUID(s)]

ADMIN_EMAIL == "admin@example.com"
ADMIN_PASSWORD == "admin123"
OTHER_EMAIL == "editor@example.com"
OTHER_PASSWORD == "editor-pw"
Emails == {ADMIN_EMAIL, OTHER_EMAIL, "nobody@example.com"}
Passwords == {ADMIN_PASSWORD, OTHER_PASSWORD}

\* bcrypt.hashpw(password, gensalt()): the salt and what was hashed under it
get_password_hash(password) == <<"$2b$", password>>

\* bcrypt.checkpw; an absent or empty hash never verifies
verify_password(plain_password, hashed_password) ==
    IF hashed_password = <<>> THEN FALSE
    ELSE hashed_password = get_password_hash(plain_password)

\* the row seed_db inserts when no admin@example.com exists
SeedAdmin ==
    [email |-> ADMIN_EMAIL, name |-> "Fabio Souza",
     hashed_password |-> get_password_hash(ADMIN_PASSWORD),
     role |-> "admin", is_admin |-> TRUE, is_banned |-> FALSE, last_login |-> 0]

\* session.get(User, id): <<row>> or <<>>
GetUser(id) == IF id \in DOMAIN users THEN <<users[id]>> ELSE <<>>

\* AuthService.get_user_by_email: the ids whose row has that email (at most one)
get_user_by_email(email) == {id \in DOMAIN users : users[id].email = email}

(***************************************************************************)
(* Token codec.  A JWT is its header algorithm, its claims and the key its *)
(* HS256 signature was computed with.                                      *)
(***************************************************************************)
ALGORITHM == "HS256"
ACCESS_TOKEN_EXPIRE_MINUTES == 60 * 24 * 7
JWT_ISSUER == "fabiosouza-site"
JWT_AUDIENCE == "fabiosouza-web"

\* secrets.token_urlsafe(16): a value never drawn before (values are numbered in
\* the order they are drawn)
token_urlsafe == Cardinality(minted) + 1

\* as create_access_token, the issuer and audience tags exchanged
CreateTokenTagsSwapped(sub, expires_delta) ==
    [alg |-> ALGORITHM,
     claims |-> [sub |-> sub, exp |-> now + expires_delta, iat |-> now,
                 iss |-> JWT_AUDIENCE, aud |-> JWT_ISSUER, jti |-> token_urlsafe],
     key |-> secret]

\* create_access_token(data, expires_delta) with data = {"sub": sub}
create_access_token(sub, expires_delta) ==
    [alg |-> ALGORITHM,
     claims |-> [sub |-> sub, exp |-> now + expires_delta, iat |-> now,
                 iss |-> JWT_ISSUER, aud |-> JWT_AUDIENCE, jti |-> token_urlsafe],
     key |-> secret]

\* AuthService.create_token_for_user
create_token_for_user(id) ==
    create_access_token(<<UuidStr(id)>>, ACCESS_TOKEN_EXPIRE_MINUTES)

\* as JwtDecodeError, a token taken for expired from the instant exp on
JwtDecodeErrorAtExpiry(token) ==
    IF token.text # "" \/ token.jwt = <<>> THEN "JWTError"
    ELSE LET t == token.jwt[1]
         IN  IF t.alg # ALGORITHM \/ t.key # secret THEN "JWTError"
             ELSE IF t.claims.exp <= now THEN "ExpiredSignatureError"
             ELSE IF t.claims.aud # JWT_AUDIENCE \/ t.claims.iss # JWT_ISSUER
             THEN "JWTClaimsError"
             ELSE ""

\* jwt.decode(token, SECRET_KEY, algorithms=[ALGORITHM], issuer=, audience=) on
\* the string "text followed by the JWT": the exception it raises, or "" when it
\* returns the claims
JwtDecodeError(token) ==
    IF token.text # "" \/ token.jwt = <<>> THEN "JWTError"   \* not a JWT at all
    ELSE LET t == token.jwt[1]
         IN  IF t.alg # ALGORITHM THEN "JWTError"
             ELSE IF t.key # secret THEN "JWTError"
             ELSE IF t.claims.exp < now THEN "ExpiredSignatureError"
             ELSE IF t.claims.aud # JWT_AUDIENCE THEN "JWTClaimsError"
             ELSE IF t.claims.iss # JWT_ISSUER THEN "JWTClaimsError"
             ELSE ""

\* as JWTErrorClasses, had the handler been "except ExpiredSignatureError"
OnlyExpiredCaught == {"ExpiredSignatureError"}

\* the exception classes "except JWTError" catches
JWTErrorClasses == {"JWTError", "ExpiredSignatureError", "JWTClaimsError"}

\* decode_access_token: [raised, payload], payload <<claims>> or <<>> (None)
decode_access_token(token) ==
    LET err == JwtDecodeError(token)
    IN  IF err = "" THEN [raised |-> "", payload |-> <<token.jwt[1].claims>>]
        ELSE IF err \in JWTErrorClasses THEN [raised |-> "", payload |-> <<>>]
        ELSE [raised |-> err, payload |-> <<>>]

\* the token string that is exactly the JWT t
TokenString(t) == [text |-> "", jwt |-> <<t>>]

(***************************************************************************)
(* Session resolver.  A cookie value is a text followed by the compact     *)
(* serialisation of at most one JWT (which is non-empty and has no blank). *)
(***************************************************************************)
NoCookie == [present |-> FALSE, text |-> "", jwt |-> <<>>]
Cookie(text, jwt) == [present |-> TRUE, text |-> text, jwt |-> jwt]

\* the response of a handler, before the handler has filled it in
NoRequest ==
    [op |-> "none", route |-> <<>>, cookie |-> NoCookie, form |-> <<>>, user |-> <<>>,
     status |-> 0, location |-> "", errors |-> {}, raised |-> "", body |-> <<>>,
     set_cookie |-> <<>>, delete_cookie |-> FALSE]

\* the cookie value f"Bearer {token}"
BearerCookie(token) == Cookie("Bearer ", <<token>>)

\* set_auth_cookie: the response asks the browser to store the cookie
set_auth_cookie(response, token) ==
    [response EXCEPT !.set_cookie = <<BearerCookie(token)>>]

\* as clear_auth_cookie, without the delete_cookie call
ClearNothing(response) == response

\* clear_auth_cookie: the response asks the browser to delete the cookie
clear_auth_cookie(response) == [response EXCEPT !.delete_cookie = TRUE]

\* as _extract_token_from_cookie, the scheme compared without lower()
ExtractTokenCaseSensitive(cookie) ==
    IF ~cookie.present \/ cookie.jwt = <<>> \/ cookie.text # "bearer " THEN <<>>
    ELSE <<[text |-> "", jwt |-> cookie.jwt]>>

\* _extract_token_from_cookie: <<>> (None), or <<[text, jwt]>>, the token string
\* being text followed by the JWT
_extract_token_from_cookie(cookie) ==
    IF ~cookie.present \/ (cookie.text = "" /\ cookie.jwt = <<>>) THEN <<>>
    ELSE LET blank == Occurrences(cookie.text, " ")
             \* scheme, _, token = raw.partition(" ")
             scheme == IF blank = {} THEN cookie.text
                       ELSE SubSeq(cookie.text, 1, MinOf(blank) - 1)
             schemeHasJwt == blank = {} /\ cookie.jwt # <<>>
             rest == IF blank = {} THEN ""
                     ELSE SubSeq(cookie.text, MinOf(blank) + 1, Len(cookie.text))
             jwt == IF blank = {} THEN <<>> ELSE cookie.jwt
         IN  IF schemeHasJwt \/ Lower(scheme) # "bearer" \/ (rest = "" /\ jwt = <<>>)
             THEN <<>>
             ELSE <<[text |-> rest, jwt |-> jwt]>>

\* as _get_user_from_token, without the is_banned test
GetUserIgnoringBan(token) ==
    LET decoded == decode_access_token(token)
    IN  IF decoded.payload = <<>> \/ decoded.payload[1].sub = <<>>
        THEN [raised |-> decoded.raised, user |-> <<>>]
        ELSE LET parsed == ParsedSubject[decoded.payload[1].sub[1]]
             IN  IF parsed = <<>> \/ GetUser(parsed[1]) = <<>>
                 THEN [raised |-> "", user |-> <<>>]
                 ELSE [raised |-> "", user |-> <<parsed[1]>>]

\* as _get_user_from_token, without the except (ValueError, TypeError) clause
GetUserUncaughtValueError(token) ==
    LET decoded == decode_access_token(token)
    IN  IF decoded.raised # "" THEN [raised |-> decoded.raised, user |-> <<>>]
        ELSE IF decoded.payload = <<>> \/ decoded.payload[1].sub \in {<<>>, <<"">>}
        THEN [raised |-> "", user |-> <<>>]
        ELSE LET parsed == ParsedSubject[decoded.payload[1].sub[1]]
             IN  IF parsed = <<>> THEN [raised |-> "ValueError", user |-> <<>>]
                 ELSE IF GetUser(parsed[1]) = <<>> \/ GetUser(parsed[1])[1].is_banned
                 THEN [raised |-> "", user |-> <<>>]
                 ELSE [raised |-> "", user |-> <<parsed[1]>>]

\* _get_user_from_token: [raised, user], user <<id>> or <<>> (None)
_get_user_from_token(token) ==
    LET decoded == decode_access_token(token)
    IN  IF decoded.raised # "" THEN [raised |-> decoded.raised, user |-> <<>>]
        ELSE IF decoded.payload = <<>> THEN [raised |-> "", user |-> <<>>]
        ELSE LET user_id == decoded.payload[1].sub
             IN  IF user_id = <<>> \/ user_id = <<"">>
                 THEN [raised |-> "", user |-> <<>>]
                 ELSE LET parsed == ParsedSubject[user_id[1]]
                      IN  IF parsed = <<>> THEN [raised |-> "", user |-> <<>>]
                          ELSE IF GetUser(parsed[1]) = <<>>
                                  \/ GetUser(parsed[1])[1].is_banned
                          THEN [raised |-> "", user |-> <<>>]
                          ELSE [raised |-> "", user |-> <<parsed[1]>>]

\* get_current_user_optional
get_current_user_optional(cookie) ==
    LET token == _extract_token_from_cookie(cookie)
    IN  IF token = <<>> THEN [raised |-> "", user |-> <<>>]
        ELSE _get_user_from_token(token[1])

\* get_current_user: the account, or HTTPException(401)
get_current_user(cookie) ==
    LET token == _extract_token_from_cookie(cookie)
    IN  IF token = <<>> THEN [raised |-> "", status |-> 401, user |-> <<>>]
        ELSE LET found == _get_user_from_token(token[1])
             IN  IF found.raised # ""
                 THEN [raised |-> found.raised, status |-> 500, user |-> <<>>]
                 ELSE IF found.user = <<>>
                 THEN [raised |-> "", status |-> 401, user |-> <<>>]
                 ELSE [raised |-> "", status |-> 200, user |-> found.user]

\* as get_current_admin_user, every caller who is no administrator answered 403
AdminCheckWithoutSession(cookie) ==
    LET found == get_current_user(cookie)
    IN  IF found.raised # "" THEN found
        ELSE IF found.user = <<>> \/ ~users[found.user[1]].is_admin
        THEN [raised |-> "", status |-> 403, user |-> <<>>]
        ELSE found

\* get_current_admin_user: the administrator, or HTTPException(401 / 403)
get_current_admin_user(cookie) ==
    LET found == get_current_user(cookie)
    IN  IF found.user = <<>> THEN found
        ELSE IF ~users[found.user[1]].is_admin
        THEN [raised |-> "", status |-> 403, user |-> <<>>]
        ELSE found

(***************************************************************************)
(* Requests of the session core.  resp describes the request handled by    *)
(* the latest step until the browser has received the response; requests  *)
(* are handled one at a time.                                              *)
(***************************************************************************)
\* as authenticate_user, without the verify_password test
AuthenticateByEmailOnly(email, password) ==
    LET found == get_user_by_email(email)
    IN  IF found = {} THEN <<>>
        ELSE LET id == CHOOSE i \in found : TRUE
             IN  IF users[id].hashed_password = <<>> THEN <<>> ELSE <<id>>

\* AuthService.authenticate_user: <<id>> or <<>> (None)
authenticate_user(email, password) ==
    LET found == get_user_by_email(email)
    IN  IF found = {} THEN <<>>
        ELSE LET id == CHOOSE i \in found : TRUE
             IN  IF users[id].hashed_password = <<>> THEN <<>>
                 ELSE IF ~verify_password(password, users[id].hashed_password) THEN <<>>
                 ELSE <<id>>

\* as Login, the commit stamping last_login on every row
LoginStampingAll(email, password) ==
    /\ resp = NoRequest
    /\ LET user == authenticate_user(email, password)
       IN  IF user = <<>>
           THEN /\ resp' = [NoRequest EXCEPT !.op = "login", !.status = 401,
                                             !.form = <<email, password>>]
                /\ UNCHANGED <<users, minted>>
           ELSE LET token == create_token_for_user(user[1])
                IN  /\ Cardinality(minted) < MaxMinted
                    /\ minted' = minted \cup {token}
                    /\ users' = [u \in DOMAIN users |->
                                    [users[u] EXCEPT !.last_login = now]]
                    /\ resp' = set_auth_cookie(
                                   [NoRequest EXCEPT !.op = "login", !.status = 200,
                                                     !.form = <<email, password>>,
                                                     !.user = user],
                                   token)
    /\ UNCHANGED <<now, secret, jar, cleared, mintedBeforeBan>>
    /\ UNCHANGED pipeVars
    /\ UNCHANGED contentVars

\* POST /api/auth/login
Login(email, password) ==
    /\ resp = NoRequest
    /\ LET user == authenticate_user(email, password)
       IN  IF user = <<>>
           THEN /\ resp' = [NoRequest EXCEPT !.op = "login", !.status = 401,
                                             !.form = <<email, password>>]
                /\ UNCHANGED <<users, minted>>
           ELSE LET token == create_token_for_user(user[1])
                IN  /\ Cardinality(minted) < MaxMinted
                    /\ minted' = minted \cup {token}
                    /\ users' = [users EXCEPT ![user[1]].last_login = now]
                    /\ resp' = set_auth_cookie(
                                   [NoRequest EXCEPT !.op = "login", !.status = 200,
                                                     !.form = <<email, password>>,
                                                     !.user = user],
                                   token)
    /\ UNCHANGED <<now, secret, jar, cleared, mintedBeforeBan>>
    /\ UNCHANGED pipeVars
    /\ UNCHANGED contentVars

Whitespace == {" ", "\t", "\n", "\r"}

RECURSIVE LStrip(_)
LStrip(s) ==
    IF s # "" /\ SubSeq(s, 1, 1) \in Whitespace THEN LStrip(Tail(s)) ELSE s

RECURSIVE RStrip(_)
RStrip(s) ==
    IF s # "" /\ SubSeq(s, Len(s), Len(s)) \in Whitespace
    THEN RStrip(SubSeq(s, 1, Len(s) - 1))
    ELSE s

\* str.strip()
Strip(s) == RStrip(LStrip(s))

\* the form values of POST /login in this model, stripped once
WebFormValues ==
    {ADMIN_EMAIL, OTHER_EMAIL, "nobody@example.com", " admin@example.com",
     ADMIN_PASSWORD, OTHER_PASSWORD, "admin123 ", ""}
StripTable == [s \in WebFormValues |-> Strip(s)]

\* POST /login of the admin pages: the form values are stripped
login_submit(email, password) ==
    /\ resp = NoRequest
    /\ LET user == authenticate_user(StripTable[email], StripTable[password])
       IN  IF user = <<>>
           THEN /\ resp' = [NoRequest EXCEPT
                                !.op = "login_submit", !.status = 303,
                                !.form = <<email, password>>,
                                !.location = "/login?error=Email+ou+senha+incorretos"]
                /\ UNCHANGED <<users, minted>>
           ELSE LET token == create_token_for_user(user[1])
                IN  /\ Cardinality(minted) < MaxMinted
                    /\ minted' = minted \cup {token}
                    /\ users' = [users EXCEPT ![user[1]].last_login = now]
                    /\ resp' = set_auth_cookie(
                                   [NoRequest EXCEPT !.op = "login_submit", !.status = 303,
                                                     !.form = <<email, password>>,
                                                     !.location = "/admin",
                                                     !.user = user],
                                   token)
    /\ UNCHANGED <<now, secret, jar, cleared, mintedBeforeBan>>
    /\ UNCHANGED pipeVars
    /\ UNCHANGED contentVars

\* POST /api/auth/logout, GET /logout: the handler reads nothing of the request
Logout ==
    /\ resp = NoRequest
    /\ resp' = clear_auth_cookie([NoRequest EXCEPT !.op = "logout", !.status = 200])
    /\ UNCHANGED <<users, now, secret, minted, jar, cleared, mintedBeforeBan>>
    /\ UNCHANGED pipeVars
    /\ UNCHANGED contentVars

\* the browser receives the response and applies its Set-Cookie header
Deliver ==
    /\ resp # NoRequest
    /\ jar' = IF resp.set_cookie # <<>> THEN resp.set_cookie[1]
              ELSE IF resp.delete_cookie THEN NoCookie
              ELSE jar
    /\ cleared' = IF resp.op = "logout" /\ jar.present THEN cleared \cup {jar}
                  ELSE cleared
    /\ resp' = NoRequest
    /\ UNCHANGED <<users, now, secret, minted, mintedBeforeBan>>
    /\ UNCHANGED pipeVars
    /\ UNCHANGED contentVars

\* GET /api/auth/me: Depends(get_current_user_optional), 401 when it gives None
Me(cookie) ==
    LET found == get_current_user_optional(cookie)
    IN  /\ resp = NoRequest
        /\ resp' = [NoRequest EXCEPT !.op = "me", !.cookie = cookie,
                                     !.user = found.user, !.raised = found.raised,
                                     !.status = IF found.raised # "" THEN 500
                                                ELSE IF found.user = <<>> THEN 401
                                                ELSE 200]
        /\ UNCHANGED <<users, now, secret, minted, jar, cleared, mintedBeforeBan>>
        /\ UNCHANGED pipeVars
        /\ UNCHANGED contentVars

\* GET /api/audit: CurrentAdminUser, i.e. get_current_user then the admin check
AdminApi(cookie) ==
    LET found == get_current_admin_user(cookie)
    IN  /\ resp = NoRequest
        /\ resp' = [NoRequest EXCEPT !.op = "admin", !.cookie = cookie,
                                     !.user = found.user, !.raised = found.raised,
                                     !.status = found.status]
        /\ UNCHANGED <<users, now, secret, minted, jar, cleared, mintedBeforeBan>>
        /\ UNCHANGED pipeVars
        /\ UNCHANGED contentVars

\* AuthService.create_user: the row it inserts
create_user(email, name, password, is_admin) ==
    [email |-> email, name |-> name,
     hashed_password |-> IF password = <<>> THEN <<>>
                         ELSE get_password_hash(password[1]),
     role |-> IF is_admin THEN "admin" ELSE "editor",
     is_admin |-> is_admin, is_banned |-> FALSE, last_login |-> now]

\* AuthService.create_user committed under a fresh uuid4; the unique index on
\* email refuses a second row with the same email
CreateUser(id, password, is_admin) ==
    /\ resp = NoRequest
    /\ id \notin DOMAIN users
    /\ get_user_by_email(OTHER_EMAIL) = {}
    /\ users' = users @@ (id :> create_user(OTHER_EMAIL, "Editor", password, is_admin))
    /\ UNCHANGED <<now, secret, minted, jar, cleared, mintedBeforeBan, resp>>
    /\ UNCHANGED pipeVars
    /\ UNCHANGED contentVars

\* an administrative action marks an account banned (User.is_banned)
BanUser(id) ==
    /\ resp = NoRequest
    /\ id \in DOMAIN users
    /\ ~users[id].is_banned
    /\ users' = [users EXCEPT ![id].is_banned = TRUE]
    /\ mintedBeforeBan' =
           mintedBeforeBan \cup {t \in minted : t.claims.sub = <<UuidStr(id)>>}
    /\ UNCHANGED <<now, secret, minted, jar, cleared, resp>>
    /\ UNCHANGED pipeVars
    /\ UNCHANGED contentVars

\* the clock advances by a whole token lifetime, or by a minute more
TickSteps == {ACCESS_TOKEN_EXPIRE_MINUTES, ACCESS_TOKEN_EXPIRE_MINUTES + 1}

Tick(d) ==
    /\ resp = NoRequest
    /\ now \div ACCESS_TOKEN_EXPIRE_MINUTES < MaxLifetimes
    /\ now' = now + d
    /\ UNCHANGED <<users, secret, minted, jar, cleared, mintedBeforeBan, resp>>
    /\ UNCHANGED pipeVars
    /\ UNCHANGED contentVars

(***************************************************************************)
(* Rows of the content tables.  A post or project has the id uuid4 gave it *)
(* (ids are numbered as they are drawn); a comment is numbered in the      *)
(* order of creation, which is also the order of created_at: utc_now() of  *)
(* a later row is later.                                                    *)
(***************************************************************************)
\* the slugs of posts_seed, in its order
SeedPostSlugs ==
    <<"welcome-to-the-blog", "ssr-first-ux-jx-htmx", "design-tokens-and-motion",
      "fastapi-monorepo-patterns", "htmx-partials-done-right">>

\* Post(...) as seed_db and BlogService.create_post build it
PostRow(slug, title) == [slug |-> slug, title |-> title]

\* the slugs of projects_seed with their "featured", in its order
SeedProjectSlugs ==
    <<"portfolio-platform", "blog-engine", "admin-console", "design-system",
      "analytics-lite">>
SeedProjectFeatured == <<TRUE, TRUE, FALSE, FALSE, FALSE>>

\* Project(...) as seed_db and ProjectService.create_project build it; a row's
\* created_at is later than that of every row created before it
ProjectRow(slug, title, featured, created_at) ==
    [slug |-> slug, title |-> title, featured |-> featured, created_at |-> created_at]

\* Settings(id=1, ...) of seed_db
SeedSettings == [home_projects_count |-> 4, home_projects_featured_only |-> FALSE]

\* as CommentRow, the guest fields kept for a signed-in author
CommentRowKeepingGuest(id, post_id, user, content, guest_name, guest_email) ==
    [id |-> id, post_id |-> post_id, user_id |-> user, content |-> content,
     guest_name |-> guest_name, guest_email |-> guest_email,
     parent_id |-> <<>>, created_at |-> id, is_deleted |-> FALSE]

\* Comment(...) with its defaults, the row of CommentService.create_comment
CommentRow(id, post_id, user, content, guest_name, guest_email) ==
    [id |-> id, post_id |-> post_id, user_id |-> user, content |-> content,
     guest_name |-> IF user # <<>> THEN <<>> ELSE guest_name,
     guest_email |-> IF user # <<>> THEN <<>> ELSE guest_email,
     parent_id |-> <<>>, created_at |-> id, is_deleted |-> FALSE]

(***************************************************************************)
(* seed_db (db/seed.py), run by lifespan at every start of an application. *)
(***************************************************************************)
\* the elements of a finite set of numbers, ascending
RECURSIVE Ascending(_)
Ascending(S) == IF S = {} THEN <<>> ELSE <<MinOf(S)>> \o Ascending(S \ {MinOf(S)})

\* the slugs of a seed list that no row of the table has, in the list's order
Missing(slugs, table) ==
    LET Test(slug) == \A id \in DOMAIN table : table[id].slug # slug
    IN  SelectSeq(slugs, Test)

\* the posts branch: below six posts, every seed post whose slug is absent
seed_posts(table, drawn) ==
    IF Cardinality(DOMAIN table) < 6
    THEN LET missing == Missing(SeedPostSlugs, table)
         IN  table @@ [id \in (drawn + 1)..(drawn + Len(missing)) |->
                          PostRow(missing[id - drawn], "Seed post")]
    ELSE table

\* Comment(...) of the comments branch
SeedComment(id, post_id) ==
    CommentRow(id, post_id, <<>>, "Great post. Clear and practical.",
               <<"Reader">>, <<"reader@example.com">>)

\* the comments branch: below four comments, one on each of the first three
\* posts (select(Post).limit(3), in the order of insertion)
seed_comments(table, posts_table) ==
    IF Len(table) < 4
    THEN LET all == Ascending(DOMAIN posts_table)
             first == SubSeq(all, 1, IF Len(all) < 3 THEN Len(all) ELSE 3)
         IN  table \o [i \in 1..Len(first) |-> SeedComment(Len(table) + i, first[i])]
    ELSE table

\* the projects branch: below six projects, every seed project whose slug is absent
seed_projects(table, drawn) ==
    IF Cardinality(DOMAIN table) < 6
    THEN LET missing == Missing(SeedProjectSlugs, table)
             Featured(slug) ==
                 SeedProjectFeatured[CHOOSE i \in 1..Len(SeedProjectSlugs) :
                                         SeedProjectSlugs[i] = slug]
         IN  table @@ [id \in (drawn + 1)..(drawn + Len(missing)) |->
                          ProjectRow(missing[id - drawn], "Seed project",
                                     Featured(missing[id - drawn]), id)]
    ELSE table

\* the settings branch: the row with id 1 is created when absent
seed_settings(row) == IF row = <<>> THEN <<SeedSettings>> ELSE row

\* seed_db on a store [posts, comments, projects, settings, uuids]
seed_db(db) ==
    LET new_posts == seed_posts(db.posts, db.uuids)
        drawn == db.uuids + Cardinality(DOMAIN new_posts) - Cardinality(DOMAIN db.posts)
        new_projects == seed_projects(db.projects, drawn)
    IN  [posts |-> new_posts,
         comments |-> seed_comments(db.comments, new_posts),
         projects |-> new_projects,
         settings |-> seed_settings(db.settings),
         uuids |-> drawn + Cardinality(DOMAIN new_projects)
                         - Cardinality(DOMAIN db.projects)]

\* the tables seed_db works on, as they are
Database ==
    [posts |-> posts, comments |-> comments, projects |-> projects,
     settings |-> settings, uuids |-> uuids]

\* init_db() on no database file: the tables exist and are empty
EmptyDatabase ==
    [posts |-> <<>>, comments |-> <<>>, projects |-> <<>>, settings |-> <<>>, uuids |-> 0]

\* Settings.validate_secret_key at a process start without a configured
\* SECRET_KEY: a key never used before (keys are numbered as they are generated)
validate_secret_key == secret + 1

\* a process start: lifespan runs init_db and seed_db on the store as it is
Restart ==
    /\ resp = NoRequest
    /\ secret < MaxRestarts
    /\ secret' = validate_secret_key
    /\ posts' = seed_db(Database).posts
    /\ projects' = seed_db(Database).projects
    /\ comments' = seed_db(Database).comments
    /\ settings' = seed_db(Database).settings
    /\ uuids' = seed_db(Database).uuids
    /\ UNCHANGED <<users, now, minted, jar, cleared, mintedBeforeBan, resp>>
    /\ UNCHANGED pipeVars
    /\ UNCHANGED <<store, contact_messages, reactions, audit_logs, uploads, calls>>

(***************************************************************************)
(* What a caller can present: minted tokens, and tokens made from them by  *)
(* someone who does not hold the key, or by a signer with other tags.      *)
(***************************************************************************)
Forged(t) ==
    { [t EXCEPT !.key = -1],
      [t EXCEPT !.claims.iss = "other-issuer"],
      [t EXCEPT !.claims.aud = "other-audience"] }

CookieTexts == {"Bearer ", "bearer ", "Basic "}
TextOnlyCookies == {Cookie(text, <<>>) : text \in {"", "Bearer ", "Bearer x.y.z"}}

CookieInputs ==
    {NoCookie}
        \cup TextOnlyCookies
        \cup {Cookie(text, <<t>>) : text \in CookieTexts, t \in minted}
        \cup {BearerCookie(f) : f \in UNION {Forged(t) : t \in minted}}

(***************************************************************************)
(* Request pipeline of the admin application:                              *)
(*   PageviewMiddleware( SecurityMiddleware( GZip( routes ) ) )            *)
(* A header is <<>> when the request does not carry it, else <<value>>.    *)
(***************************************************************************)
APP_NAME == "admin"
SKIP_HTMX_VALIDATION == {"/static/", "/favicon.ico", "/health", "/api/healthz"}
PAGEVIEW_SKIP_PREFIXES == {"/static", "/api/healthz", "/healthz", "/status"}

\* Settings.is_production, Settings.is_development
is_production == Lower(env) = "production"
is_development == Lower(env) = "development"

\* headers.get(name, default)
HeaderGet(header, default) == IF header = <<>> THEN default ELSE header[1]

\* value.split("://")[-1].split("/")[0]
HostPart(value) == SplitFirst(SplitLast(value, "://"), "/")

_should_skip_htmx_validation(request) ==
    \E skip \in SKIP_HTMX_VALIDATION : StartsWith(request.path, skip)

\* as _validate_htmx_request, the hosts compared only when development mode is on
ValidateOnlyInDevelopment(request) ==
    IF HeaderGet(request.hx_request, "") = "" THEN TRUE
    ELSE IF ~is_development THEN TRUE
    ELSE HostPart(HeaderGet(request.origin, "")) = HeaderGet(request.host, "")

_validate_htmx_request(request) ==
    IF HeaderGet(request.hx_request, "") = "" THEN TRUE
    ELSE LET origin == HeaderGet(request.origin, "")
             referer == HeaderGet(request.referer, "")
             host == HeaderGet(request.host, "")
         IN  IF origin # "" /\ HostPart(origin) = host THEN TRUE
             ELSE IF referer # "" /\ HostPart(referer) = host THEN TRUE
             ELSE IF is_development
                     /\ (Contains(host, "localhost") \/ Contains(host, "127.0.0.1"))
             THEN TRUE
             ELSE FALSE

_get_production_csp ==
    "default-src 'self'; "
    \o "script-src 'self' https://cdn.tailwindcss.com https://unpkg.com; "
    \o "style-src 'self' 'unsafe-inline' https://fonts.googleapis.com https://cdn.tailwindcss.com; "
    \o "font-src 'self' https://fonts.gstatic.com; "
    \o "img-src 'self' data: https:; "
    \o "connect-src 'self'; "
    \o "frame-ancestors 'none';"

_get_development_csp ==
    "default-src 'self'; "
    \o "script-src 'self' 'unsafe-inline' 'unsafe-eval' https://cdn.tailwindcss.com https://unpkg.com; "
    \o "style-src 'self' 'unsafe-inline' https://fonts.googleapis.com https://cdn.tailwindcss.com; "
    \o "font-src 'self' https://fonts.gstatic.com; "
    \o "img-src 'self' data: https:; "
    \o "connect-src 'self' ws://localhost:* http://localhost:*; "
    \o "frame-ancestors 'none';"

\* response.headers[name] = value
SetHeader(headers, name, value) ==
    [h \in DOMAIN headers \cup {name} |-> IF h = name THEN value ELSE headers[h]]

\* request.headers.get("X-Request-ID", str(uuid.uuid4()))
RequestId(request, generated) == HeaderGet(request.x_request_id, generated)

\* as RejectionResponse, without the headers argument
RejectionWithoutRequestId(request_id) ==
    [outcome |-> "response", status |-> 403, headers |-> <<>>]

\* the Response the guard answers with instead of calling the route
RejectionResponse(request_id) ==
    [outcome |-> "response", status |-> 403,
     headers |-> ("X-Request-ID" :> request_id)]

\* the header assignments after call_next
HardenResponse(response, request_id) ==
    LET h1 == SetHeader(response.headers, "X-Request-ID", request_id)
        h2 == SetHeader(h1, "X-Content-Type-Options", "nosniff")
        h3 == SetHeader(h2, "X-Frame-Options", "DENY")
        h4 == SetHeader(h3, "X-XSS-Protection", "1; mode=block")
        h5 == SetHeader(h4, "Referrer-Policy", "strict-origin-when-cross-origin")
        h6 == SetHeader(h5, "Permissions-Policy", "geolocation=(), microphone=(), camera=()")
        csp == IF is_production THEN _get_production_csp ELSE _get_development_csp
    IN  [response EXCEPT !.headers = SetHeader(h6, "Content-Security-Policy", csp)]

\* SecurityMiddleware.dispatch.  downstream is what call_next gives for this
\* request: a response of the route, or an exception that propagates.
SecurityDispatch(request, generated, downstream) ==
    LET request_id == RequestId(request, generated)
        rejected == ~_should_skip_htmx_validation(request)
                        /\ ~_validate_htmx_request(request)
        response == IF rejected THEN RejectionResponse(request_id)
                    ELSE IF downstream.outcome = "raised" THEN downstream
                    ELSE HardenResponse(downstream, request_id)
    IN  [outcome |-> response.outcome, status |-> response.status,
         headers |-> response.headers,
         state_request_id |-> request_id,
         reached_route |-> ~rejected]

\* as PageviewSkipsStatus, the boundary status 400 let through
SkipsAbove400(status) == status > 400

\* response.status_code >= 400
PageviewSkipsStatus(status) == status >= 400

\* as PageviewCapture, redirects taken for errors (status >= 300)
CaptureBelow300(request, response) ==
    IF response.outcome = "raised" \/ request.method # "GET" \/ response.status >= 300
       \/ \E prefix \in PAGEVIEW_SKIP_PREFIXES : StartsWith(request.path, prefix)
    THEN <<>>
    ELSE <<[app_name |-> APP_NAME, path |-> request.path,
            referrer |-> request.referer, user_agent |-> request.user_agent,
            ip |-> request.client]>>

\* PageviewMiddleware.dispatch after call_next: <<>> when it returns the
\* response as it is, else the arguments of the _store_pageview task it starts
PageviewCapture(request, response) ==
    IF response.outcome = "raised" THEN <<>>
    ELSE IF request.method # "GET" THEN <<>>
    ELSE IF \E prefix \in PAGEVIEW_SKIP_PREFIXES : StartsWith(request.path, prefix)
    THEN <<>>
    ELSE IF PageviewSkipsStatus(response.status) THEN <<>>
    ELSE <<[app_name |-> APP_NAME, path |-> request.path,
            referrer |-> request.referer, user_agent |-> request.user_agent,
            ip |-> request.client]>>

\* hashlib.sha256(ip.encode()).hexdigest() of the addresses of this model
Sha256Hex ==
    ("203.0.113.7" :> "fec52565aa0cf18f57d7cf5b3ac728503b8992d2d6f7d46da1d1201090902b02")
        @@ ("2001:db8::17"
                :> "48cdfaf0b709e03d86b3e8a67984ec869af9eee94c43e31ea82c784aee9f421d")

\* as hash_ip, the address stored as it came
HashIpRaw(ip) == ip

\* AnalyticsService.hash_ip
hash_ip(ip) == IF HeaderGet(ip, "") = "" THEN <<>> ELSE <<Sha256Hex[ip[1]]>>

\* AnalyticsService.track_pageview: the row it commits
track_pageview(task) ==
    [id |-> Len(pageviews) + 1, app |-> task.app_name, path |-> task.path,
     referrer |-> task.referrer, ua |-> task.user_agent, ip_hash |-> hash_ip(task.ip),
     created_at |-> now]

\* GET /api/auth/github/start (and /callback): without configured GitHub OAuth,
\* development mode signs the caller in as the seeded administrator
GithubStart ==
    /\ resp = NoRequest
    /\ IF ~is_development
       THEN /\ resp' = [NoRequest EXCEPT !.op = "github", !.status = 501]
            /\ UNCHANGED minted
       ELSE LET user == get_user_by_email(ADMIN_EMAIL)
            IN  IF user = {}
                THEN /\ resp' = [NoRequest EXCEPT !.op = "github", !.status = 404]
                     /\ UNCHANGED minted
                ELSE LET id == CHOOSE i \in user : TRUE
                         token == create_token_for_user(id)
                     IN  /\ Cardinality(minted) < MaxMinted
                         /\ minted' = minted \cup {token}
                         /\ resp' = set_auth_cookie(
                                        [NoRequest EXCEPT !.op = "github", !.status = 302,
                                                          !.user = <<id>>],
                                        token)
    /\ UNCHANGED <<users, now, secret, jar, cleared, mintedBeforeBan>>
    /\ UNCHANGED pipeVars
    /\ UNCHANGED contentVars

\* as AdminRequest, the pageview stage installed inside the security stage, where
\* it sees the route's response and not the guard's
PageviewInsideSecurity(request, generated, downstream) ==
    /\ mw = <<>>
    /\ LET inner == SecurityDispatch(request, generated, downstream)
           task == PageviewCapture(request, downstream)
       IN  /\ task # <<>> => scheduled < MaxPageviews
           /\ tasks' = tasks \o task
           /\ scheduled' = scheduled + Len(task)
           /\ mw' = <<[request |-> request, generated |-> generated,
                       outcome |-> inner.outcome, status |-> inner.status,
                       headers |-> inner.headers,
                       state_request_id |-> inner.state_request_id,
                       reached_route |-> inner.reached_route,
                       task |-> task]>>
    /\ UNCHANGED <<env, pageviews, dropped>>
    /\ UNCHANGED authVars
    /\ UNCHANGED contentVars

\* one request through the whole pipeline
AdminRequest(request, generated, downstream) ==
    /\ mw = <<>>
    /\ LET inner == SecurityDispatch(request, generated, downstream)
           task == PageviewCapture(request, inner)
       IN  /\ task # <<>> => scheduled < MaxPageviews
           /\ tasks' = tasks \o task
           /\ scheduled' = scheduled + Len(task)
           /\ mw' = <<[request |-> request, generated |-> generated,
                       outcome |-> inner.outcome, status |-> inner.status,
                       headers |-> inner.headers,
                       state_request_id |-> inner.state_request_id,
                       reached_route |-> inner.reached_route,
                       task |-> task]>>
    /\ UNCHANGED <<env, pageviews, dropped>>
    /\ UNCHANGED authVars
    /\ UNCHANGED contentVars

\* as Sent, the response held back until no pageview write is pending
SentAfterWrites ==
    /\ mw # <<>>
    /\ tasks = <<>>
    /\ mw' = <<>>
    /\ UNCHANGED <<env, pageviews, tasks, dropped, scheduled>>
    /\ UNCHANGED authVars
    /\ UNCHANGED contentVars

\* the response (or the error page made from the exception) has gone to the client
Sent ==
    /\ mw # <<>>
    /\ mw' = <<>>
    /\ UNCHANGED <<env, pageviews, tasks, dropped, scheduled>>
    /\ UNCHANGED authVars
    /\ UNCHANGED contentVars

RemoveAt(seq, i) == SubSeq(seq, 1, i - 1) \o SubSeq(seq, i + 1, Len(seq))

\* as StorePageview, only the newest row kept
StorePageviewEvicting(i) ==
    /\ i \in 1..Len(tasks)
    /\ pageviews' = <<track_pageview(tasks[i])>>
    /\ tasks' = RemoveAt(tasks, i)
    /\ UNCHANGED <<env, dropped, scheduled, mw>>
    /\ UNCHANGED authVars
    /\ UNCHANGED contentVars

\* a detached _store_pageview task runs to its end
StorePageview(i) ==
    /\ i \in 1..Len(tasks)
    /\ pageviews' = Append(pageviews, track_pageview(tasks[i]))
    /\ tasks' = RemoveAt(tasks, i)
    /\ UNCHANGED <<env, dropped, scheduled, mw>>
    /\ UNCHANGED authVars
    /\ UNCHANGED contentVars

\* a detached task ends in an exception of the session (nobody awaits the task)
StorePageviewFails(i) ==
    /\ i \in 1..Len(tasks)
    /\ tasks' = RemoveAt(tasks, i)
    /\ dropped' = dropped + 1
    /\ UNCHANGED <<env, pageviews, scheduled, mw>>
    /\ UNCHANGED authVars
    /\ UNCHANGED contentVars

\* the process stops while detached tasks are still pending
Shutdown ==
    /\ tasks # <<>>
    /\ mw = <<>>
    /\ tasks' = <<>>
    /\ dropped' = dropped + Len(tasks)
    /\ UNCHANGED <<env, pageviews, scheduled, mw>>
    /\ UNCHANGED authVars
    /\ UNCHANGED contentVars

(***************************************************************************)
(* Pages of the admin application (admin/web/router.py).  A route is its   *)
(* method and path, what it does with a caller who is no administrator,    *)
(* and the content tables its handler commits to once it runs.             *)
(***************************************************************************)
ContentTables == {"posts", "projects", "comments", "profile", "settings", "audit_logs"}

Route(method, path, guard, writes) ==
    [method |-> method, path |-> path, guard |-> guard, writes |-> writes]

\* the routes that begin with "if not _is_admin(user): return _redirect_login()"
GuardedRoutes ==
    {Route("GET", "/admin", "redirect", {}),
     Route("GET", "/admin/blog", "redirect", {}),
     Route("GET", "/admin/blog/new", "redirect", {}),
     Route("POST", "/admin/blog/new", "redirect", {"posts", "audit_logs"}),
     Route("GET", "/admin/blog/{post_id}", "redirect", {}),
     Route("POST", "/admin/blog/{post_id}", "redirect", {"posts", "audit_logs"}),
     Route("POST", "/admin/blog/{post_id}/delete", "redirect", {"posts", "audit_logs"}),
     Route("GET", "/admin/projects", "redirect", {}),
     Route("GET", "/admin/projects/new", "redirect", {}),
     Route("POST", "/admin/projects/new", "redirect", {"projects", "audit_logs"}),
     Route("GET", "/admin/projects/{project_id}", "redirect", {}),
     Route("POST", "/admin/projects/{project_id}", "redirect", {"projects", "audit_logs"}),
     Route("POST", "/admin/projects/{project_id}/delete", "redirect",
           {"projects", "audit_logs"}),
     Route("GET", "/admin/profile", "redirect", {"profile"}),
     Route("POST", "/admin/profile", "redirect", {"profile", "audit_logs"}),
     Route("GET", "/admin/comments", "redirect", {}),
     Route("GET", "/admin/comments/{comment_id}", "redirect", {}),
     Route("POST", "/admin/comments/{comment_id}/delete", "redirect",
           {"comments", "audit_logs"}),
     Route("POST", "/admin/comments/{comment_id}/restore", "redirect",
           {"comments", "audit_logs"}),
     Route("GET", "/admin/messages", "redirect", {}),
     Route("GET", "/admin/status", "redirect", {}),
     Route("GET", "/admin/audit", "redirect", {}),
     Route("GET", "/admin/files", "redirect", {}),
     Route("POST", "/admin/files", "redirect", {"audit_logs"}),
     Route("POST", "/admin/files/delete", "redirect", {"audit_logs"}),
     Route("GET", "/admin/settings", "redirect", {"settings"}),
     Route("POST", "/admin/settings", "redirect", {"settings", "audit_logs"}),
     Route("POST", "/admin/settings/sync-github", "redirect", {"audit_logs"}),
     Route("GET", "/admin/analytics", "redirect", {}),
     Route("GET", "/events/admin.analytics", "redirect", {}),
     Route("GET", "/sse/audit/stream", "redirect", {}),
     Route("GET", "/sse/jobs/stream", "redirect", {}),
     Route("GET", "/admin/partials/posts/table", "redirect", {}),
     Route("GET", "/admin/partials/projects/table", "redirect", {})}

\* root sends every caller on; the two partials take no user at all
AdminWebRoutes ==
    GuardedRoutes
        \cup {Route("GET", "/", "root", {}),
              Route("GET", "/admin/partials/toast", "none", {}),
              Route("POST", "/admin/partials/editor/preview", "none", {})}

\* _is_admin(user), user being <<id>> or <<>>
_is_admin(user) == user # <<>> /\ users[user[1]].is_admin

\* RedirectResponse(url="/login", status_code=303)
_redirect_login(response) == [response EXCEPT !.status = 303, !.location = "/login"]

\* one request to a page of the admin application
AdminWeb(route, cookie) ==
    /\ resp = NoRequest
    /\ LET found == get_current_user_optional(cookie)
           user == IF route.guard = "none" THEN <<>> ELSE found.user
           request == [NoRequest EXCEPT !.op = "web", !.route = <<route.method, route.path>>,
                                        !.cookie = cookie, !.user = user]
       IN  IF route.guard = "root"
           THEN /\ resp' = [request EXCEPT
                                !.status = 302,
                                !.location = IF _is_admin(user) THEN "/admin" ELSE "/login"]
                /\ UNCHANGED store
           ELSE IF route.guard = "redirect" /\ ~_is_admin(user)
           THEN /\ resp' = _redirect_login(request)
                /\ UNCHANGED store
           ELSE /\ \A table \in route.writes : store[table] < MaxWrites
                /\ store' = [table \in ContentTables |->
                                IF table \in route.writes THEN store[table] + 1
                                ELSE store[table]]
                /\ resp' = [request EXCEPT !.status = 200]
    /\ UNCHANGED <<users, now, secret, minted, jar, cleared, mintedBeforeBan>>
    /\ UNCHANGED pipeVars
    /\ UNCHANGED contact_messages
    /\ UNCHANGED dataVars

(***************************************************************************)
(* Contact form of the portfolio application.  A form field the request    *)
(* does not carry reads as "".                                             *)
(***************************************************************************)
ContactNames == {"", "A", " A ", "Al", " Al\n"}
ContactEmails == {"", "invalid-email", "ana@example.org", " @ "}
ContactMessages == {"short", "123456789", "1234567890", " 12345678 ", "\tHello there!  "}

\* the form values of this model, stripped once
ContactStripTable ==
    [raw \in ContactNames \cup ContactEmails \cup ContactMessages |-> Strip(raw)]

\* as contact_field, the value taken as submitted
ContactFieldRaw(raw) == raw

\* str(form.get(field) or "").strip()
contact_field(raw) == ContactStripTable[raw]

\* the errors dict of contact_form_submit, as its set of (field, text) items
contact_errors(name, email, message) ==
    (IF Len(name) < 2 THEN {<<"name", "Name must have at least 2 characters">>} ELSE {})
        \cup (IF ~Contains(email, "@") THEN {<<"email", "Valid email is required">>}
               ELSE {})
        \cup (IF Len(message) < 10
               THEN {<<"message", "Message must have at least 10 characters">>}
               ELSE {})

\* ContactMessageService.create_message: the row it commits
create_message(name, email, message, ip_address, user_agent) ==
    [id |-> Len(contact_messages) + 1, name |-> Strip(name), email |-> Strip(email),
     subject |-> <<>>, message |-> Strip(message), is_read |-> FALSE,
     created_at |-> now, ip_address |-> ip_address, user_agent |-> user_agent]

\* POST /partials/contact/form
contact_form_submit(raw_name, raw_email, raw_message) ==
    /\ resp = NoRequest
    /\ LET name == contact_field(raw_name)
           email == contact_field(raw_email)
           message == contact_field(raw_message)
           errors == contact_errors(name, email, message)
           request == [NoRequest EXCEPT !.op = "contact",
                                        !.route = <<"POST", "/partials/contact/form">>,
                                        !.form = <<raw_name, raw_email, raw_message>>]
       IN  IF errors # {}
           THEN /\ resp' = [request EXCEPT !.status = 400, !.errors = errors]
                /\ UNCHANGED contact_messages
           ELSE /\ Len(contact_messages) < MaxMessages
                /\ contact_messages' =
                       Append(contact_messages,
                              create_message(name, email, message,
                                             <<"203.0.113.7">>, <<"Mozilla/5.0">>))
                /\ resp' = [request EXCEPT !.status = 200]
    /\ UNCHANGED <<users, now, secret, minted, jar, cleared, mintedBeforeBan>>
    /\ UNCHANGED pipeVars
    /\ UNCHANGED store
    /\ UNCHANGED dataVars

(***************************************************************************)
(* Comments: blog/api/router.py, services/comment_service.py and the       *)
(* comment routes of admin/web/router.py.                                  *)
(***************************************************************************)
\* html.escape(text), quote=True
HtmlEscapeChar(c) ==
    CASE c = "&" -> "&amp;"
      [] c = "<" -> "&lt;"
      [] c = ">" -> "&gt;"
      [] c = "\"" -> "&quot;"
      [] c = "'" -> "&#x27;"
      [] OTHER -> c

RECURSIVE HtmlEscape(_)
HtmlEscape(text) ==
    IF text = "" THEN "" ELSE HtmlEscapeChar(SubSeq(text, 1, 1)) \o HtmlEscape(Tail(text))

\* sanitize_html
sanitize_html(text) == IF text = "" THEN "" ELSE HtmlEscape(text)

\* what a comment request can carry under "content", "guest_name", "guest_email";
\* <<>> is a key the payload does not have
CommentContents == {<<>>, <<"">>, <<" \n">>, <<" Nice post. ">>, <<"<b>Hi</b>">>}
CommentGuestNames == {<<>>, <<"  ">>, <<" Ana ">>}
CommentGuestEmails == {<<>>, <<"ana@example.org">>}
CommentRawStrings ==
    {v[1] : v \in {w \in CommentContents \cup CommentGuestNames \cup CommentGuestEmails :
                       w # <<>>}}
        \cup {""}

\* the strings of this model's payloads and what strip() makes of them
CommentStrings == CommentRawStrings \cup {Strip(raw) : raw \in CommentRawStrings}

\* those strings stripped once and escaped once
CommentStripTable == [s \in CommentStrings |-> Strip(s)]
CommentEscapeTable == [s \in CommentStrings |-> sanitize_html(s)]

\* as payload_field, the value taken as sent
PayloadFieldRaw(value) == IF value = <<>> THEN "" ELSE value[1]

\* str(payload.get(key) or "").strip()
payload_field(value) == IF value = <<>> THEN "" ELSE CommentStripTable[value[1]]

\* Comment.build_content: sanitize_html(value.strip())
build_content(value) == CommentEscapeTable[CommentStripTable[value]]

\* CommentService.get_post_by_slug: the ids of the posts with that slug (the
\* unique index on slug allows one at most)
get_post_by_slug(post_slug) == {id \in DOMAIN posts : posts[id].slug = post_slug}

\* the item list_comments builds for one row
CommentItem(comment) ==
    [id |-> comment.id, content |-> comment.content, created_at |-> comment.created_at,
     display_name |->
         IF comment.user_id # <<>> /\ comment.user_id[1] \in DOMAIN users
         THEN LET user == users[comment.user_id[1]]
              IN  IF user.name # "" THEN user.name ELSE SplitFirst(user.email, "@")
         ELSE IF comment.guest_name # <<>> /\ comment.guest_name # <<"">>
              THEN comment.guest_name[1]
              ELSE "Anonymous",
     is_guest |-> ~(comment.user_id # <<>> /\ comment.user_id[1] \in DOMAIN users),
     guest_email |-> comment.guest_email]

Reverse(seq) == [i \in 1..Len(seq) |-> seq[Len(seq) + 1 - i]]

\* the WHERE clause of list_comments
Listed(comment, post_id) ==
    comment.post_id = post_id /\ ~comment.is_deleted /\ comment.parent_id = <<>>

\* CommentService.list_comments on a comments table: newest first
list_comments_of(table, post_slug) ==
    LET found == get_post_by_slug(post_slug)
    IN  IF found = {} THEN <<>>
        ELSE LET post_id == CHOOSE id \in found : TRUE
                 Test(comment) == Listed(comment, post_id)
                 rows == Reverse(SelectSeq(table, Test))
             IN  [i \in 1..Len(rows) |-> CommentItem(rows[i])]

\* CommentService.list_comments
list_comments(post_slug) == list_comments_of(comments, post_slug)

\* the slugs requests name: of seeded posts and of no post
CommentSlugs == {SeedPostSlugs[1], SeedPostSlugs[4], "no-such-post"}

\* GET /api/comments/{post_slug}
get_comments(post_slug) ==
    /\ resp = NoRequest
    /\ resp' = [NoRequest EXCEPT !.op = "get_comments",
                                 !.route = <<"GET", "/api/comments/", post_slug>>,
                                 !.status = 200, !.body = list_comments(post_slug)]
    /\ UNCHANGED <<users, now, secret, minted, jar, cleared, mintedBeforeBan>>
    /\ UNCHANGED pipeVars
    /\ UNCHANGED contentVars

\* POST /api/comments/{post_slug}; payload is [content, guest_name, guest_email]
create_comment(post_slug, cookie, payload) ==
    /\ resp = NoRequest
    /\ LET found == get_current_user_optional(cookie)
           user == found.user
           content == payload_field(payload.content)
           name == payload_field(payload.guest_name)
           email == payload_field(payload.guest_email)
           guest_name == IF name = "" THEN <<>> ELSE <<name>>
           guest_email == IF email = "" THEN <<>> ELSE <<email>>
           post == get_post_by_slug(post_slug)
           request == [NoRequest EXCEPT !.op = "create_comment",
                                        !.route = <<"POST", "/api/comments/", post_slug>>,
                                        !.cookie = cookie, !.user = user,
                                        !.form = payload]
       IN  IF found.raised # ""
           THEN /\ resp' = [request EXCEPT !.status = 500, !.raised = found.raised]
                /\ UNCHANGED comments
           ELSE IF user = <<>> /\ guest_name = <<>>
           THEN /\ resp' = [request EXCEPT !.status = 400]
                /\ UNCHANGED comments
           ELSE IF content = ""
           THEN /\ resp' = [request EXCEPT !.status = 400]
                /\ UNCHANGED comments
           ELSE IF post = {}
           THEN /\ resp' = [request EXCEPT !.status = 404]
                /\ UNCHANGED comments
           ELSE LET comment == CommentRow(Len(comments) + 1, CHOOSE id \in post : TRUE,
                                          user, build_content(content),
                                          guest_name, guest_email)
                IN  /\ Len(comments) < MaxComments
                    /\ comments' = Append(comments, comment)
                    /\ resp' = [request EXCEPT !.status = 200, !.body = <<comment>>]
    /\ UNCHANGED <<users, now, secret, minted, jar, cleared, mintedBeforeBan>>
    /\ UNCHANGED pipeVars
    /\ UNCHANGED <<store, contact_messages, posts, projects, reactions, audit_logs,
                   settings, uuids, uploads, calls>>

\* AuditLog(...) as the handlers build it
AuditLog(actor_user_id, action, entity, entity_id) ==
    [id |-> Len(audit_logs) + 1, actor_user_id |-> actor_user_id, action |-> action,
     entity |-> entity, entity_id |-> entity_id]

\* as set_is_deleted, the flag left as it was
SetDeletedNoop(table, comment_id, value) == table

\* CommentService.delete_comment (value TRUE) and restore_comment (value FALSE)
set_is_deleted(table, comment_id, value) ==
    [table EXCEPT ![comment_id].is_deleted = value]

delete_comment(table, comment_id) == set_is_deleted(table, comment_id, TRUE)
restore_comment(table, comment_id) == set_is_deleted(table, comment_id, FALSE)

\* the URL of _toast_redirect(url, message), message being quote(message)
_toast_redirect(url, quoted) ==
    url \o (IF Contains(url, "?") THEN "&" ELSE "?") \o "toast=" \o quoted
        \o "&tone=success"

\* POST /admin/comments/{comment_id}/delete and .../restore
admin_comment(verb, comment_id, cookie) ==
    /\ resp = NoRequest
    /\ LET found == get_current_user_optional(cookie)
           user == found.user
           request == [NoRequest EXCEPT !.op = verb,
                                        !.route = <<"POST", "/admin/comments/", comment_id>>,
                                        !.cookie = cookie, !.user = user]
       IN  IF ~_is_admin(user)
           THEN /\ resp' = _redirect_login(request)
                /\ UNCHANGED <<comments, audit_logs>>
           ELSE /\ resp' = [request EXCEPT
                                !.status = 303,
                                !.location =
                                    IF verb = "delete"
                                    THEN _toast_redirect("/admin/comments",
                                                         "Comment%20deleted")
                                    ELSE _toast_redirect("/admin/comments?show_deleted=true",
                                                         "Comment%20restored")]
                /\ IF comment_id \in DOMAIN comments
                   THEN /\ Len(audit_logs) < MaxAudit
                        /\ comments' = IF verb = "delete"
                                       THEN delete_comment(comments, comment_id)
                                       ELSE restore_comment(comments, comment_id)
                        /\ audit_logs' = Append(audit_logs,
                                                AuditLog(user, verb, "comment", comment_id))
                   ELSE UNCHANGED <<comments, audit_logs>>
    /\ UNCHANGED <<users, now, secret, minted, jar, cleared, mintedBeforeBan>>
    /\ UNCHANGED pipeVars
    /\ UNCHANGED <<store, contact_messages, posts, projects, reactions, settings, uuids,
                   uploads, calls>>

admin_comment_delete(comment_id, cookie) == admin_comment("delete", comment_id, cookie)
admin_comment_restore(comment_id, cookie) == admin_comment("restore", comment_id, cookie)

(***************************************************************************)
(* Mutations of the admin API (admin/api/router.py).  A handler commits    *)
(* its mutation and then, in _audit, commits the audit-log row: two steps  *)
(* of its connection, between which other connections may be served.       *)
(***************************************************************************)
\* the connections of the model; no handler runs on an idle one
CallIds == 1..MaxCalls
\* the connections reaction requests arrive on
ReactionCalls == 1..MaxReactionCalls
\* every connection the server holds
Connections == CallIds \cup ReactionCalls
Idle == [pc |-> "idle"]

\* what the JSON payload of a mutation carries; <<>> is a key it does not have
ApiPayload(title, slug, featured) == [title |-> title, slug |-> slug, featured |-> featured]

AdminMutations ==
    {"create_post", "update_post", "delete_post",
     "create_project", "update_project", "delete_project", "files_upload"}

\* the entity a mutation names in its audit-log row
EntityOf(op) ==
    IF op \in {"create_post", "update_post", "delete_post"} THEN "post"
    ELSE IF op = "files_upload" THEN "file"
    ELSE "project"

\* the action a mutation names in its audit-log row
ActionOf(op) ==
    IF op \in {"create_post", "create_project"} THEN "create"
    ELSE IF op \in {"update_post", "update_project"} THEN "update"
    ELSE IF op = "files_upload" THEN "upload"
    ELSE "delete"

\* update_post / update_project: setattr for every payload key the row has
UpdateRow(row, payload) ==
    [field \in DOMAIN row |->
        IF field \in DOMAIN payload /\ payload[field] # <<>> THEN payload[field][1]
        ELSE row[field]]

\* session.delete(row) committed
DeleteRow(table, id) == [other \in DOMAIN table \ {id} |-> table[other]]

\* the unique index on slug would refuse the table
SlugClash(table) ==
    \E a, b \in DOMAIN table : a # b /\ table[a].slug = table[b].slug

\* create_post / create_project: the row built from the payload under a fresh id
CreatedRow(op, payload, id) ==
    IF op = "create_post" THEN PostRow(payload.slug[1], payload.title[1])
    ELSE ProjectRow(payload.slug[1], payload.title[1],
                    IF payload.featured = <<>> THEN FALSE ELSE payload.featured[1], id)

\* the table a mutation works on and the table it commits: [status, table, entity_id];
\* a status other than 200 is the answer of a handler that committed nothing
Mutate(op, table, target, payload, fresh) ==
    IF op \in {"create_post", "create_project"}
    THEN IF payload.title = <<>> \/ payload.slug = <<>>
         THEN [status |-> 500, table |-> table, entity_id |-> fresh]
         ELSE LET new == table @@ (fresh :> CreatedRow(op, payload, fresh))
              IN  IF SlugClash(new)
                  THEN [status |-> 500, table |-> table, entity_id |-> fresh]
                  ELSE [status |-> 200, table |-> new, entity_id |-> fresh]
    ELSE IF target \notin DOMAIN table
    THEN [status |-> 404, table |-> table, entity_id |-> target]
    ELSE IF op \in {"update_post", "update_project"}
    THEN LET new == [table EXCEPT ![target] = UpdateRow(table[target], payload)]
         IN  IF SlugClash(new)
             THEN [status |-> 500, table |-> table, entity_id |-> target]
             ELSE [status |-> 200, table |-> new, entity_id |-> target]
    ELSE [status |-> 200, table |-> DeleteRow(table, target), entity_id |-> target]

\* a handler that has ended with that status
Done(call, status) == [pc |-> "done", op |-> call.op, status |-> status]

\* audit-log rows that handlers past their mutation are still to write
PendingAudits == Cardinality({c \in CallIds : calls[c].pc = "audit"})

\* a mutation of the admin API up to the commit of the mutation itself: the
\* CurrentAdminUser dependency, then the service call (for files_upload,
\* _save_upload of the file whose content is the payload)
AdminMutation(c, op, cookie, target, payload) ==
    /\ calls[c] = Idle
    /\ Len(audit_logs) + PendingAudits < MaxAudit
    /\ LET found == get_current_admin_user(cookie)
           call == [pc |-> "audit", op |-> op, cookie |-> cookie, status |-> 0,
                    actor |-> found.user, entity_id |-> target]
       IN  IF found.status # 200
           THEN /\ calls' = [calls EXCEPT ![c] = Done(call, found.status)]
                /\ UNCHANGED <<posts, projects, uploads, uuids>>
           ELSE IF op = "files_upload"
           THEN IF payload = ""
                THEN /\ calls' = [calls EXCEPT ![c] = Done(call, 400)]
                     /\ UNCHANGED <<posts, projects, uploads, uuids>>
                ELSE /\ uploads' = uploads + 1
                     /\ calls' = [calls EXCEPT ![c] = [call EXCEPT !.entity_id = uploads + 1]]
                     /\ UNCHANGED <<posts, projects, uuids>>
           ELSE LET table == IF EntityOf(op) = "post" THEN posts ELSE projects
                    result == Mutate(op, table, target, payload, uuids + 1)
                IN  /\ op \in {"create_post", "create_project"} => uuids < MaxUuids
                    /\ IF result.status # 200
                       THEN /\ calls' = [calls EXCEPT ![c] = Done(call, result.status)]
                            /\ UNCHANGED <<posts, projects, uuids>>
                       ELSE /\ calls' = [calls EXCEPT ![c] =
                                            [call EXCEPT !.entity_id = result.entity_id]]
                            /\ posts' = IF EntityOf(op) = "post" THEN result.table
                                        ELSE posts
                            /\ projects' = IF EntityOf(op) = "project" THEN result.table
                                           ELSE projects
                            /\ uuids' = IF op \in {"create_post", "create_project"}
                                        THEN uuids + 1 ELSE uuids
                    /\ UNCHANGED uploads
    /\ UNCHANGED audit_logs
    /\ UNCHANGED <<store, contact_messages, comments, reactions, settings>>
    /\ UNCHANGED authVars
    /\ UNCHANGED pipeVars

\* as ApiAudit, the handler returning without the audit-log row
ReturnWithoutAudit(c) ==
    /\ calls[c].pc = "audit"
    /\ calls' = [calls EXCEPT ![c] = Done(calls[c], 200)]
    /\ UNCHANGED <<posts, projects, uploads, uuids, audit_logs>>
    /\ UNCHANGED <<store, contact_messages, comments, reactions, settings>>
    /\ UNCHANGED authVars
    /\ UNCHANGED pipeVars

\* _audit: the audit-log row of the mutation is committed and the handler returns
ApiAudit(c) ==
    /\ calls[c].pc = "audit"
    /\ audit_logs' = Append(audit_logs,
                            AuditLog(calls[c].actor, ActionOf(calls[c].op),
                                     EntityOf(calls[c].op), calls[c].entity_id))
    /\ calls' = [calls EXCEPT ![c] = Done(calls[c], 200)]
    /\ UNCHANGED <<posts, projects, uploads, uuids>>
    /\ UNCHANGED <<store, contact_messages, comments, reactions, settings>>
    /\ UNCHANGED authVars
    /\ UNCHANGED pipeVars

\* the client has the response; the connection is free for the next request
Return(c) ==
    /\ calls[c].pc = "done"
    /\ calls' = [calls EXCEPT ![c] = Idle]
    /\ UNCHANGED <<posts, projects, comments, reactions, audit_logs, settings, uuids,
                   uploads>>
    /\ UNCHANGED <<store, contact_messages>>
    /\ UNCHANGED authVars
    /\ UNCHANGED pipeVars

(***************************************************************************)
(* Reactions (POST /api/posts/{slug}/reactions).  BlogService.add_reaction *)
(* reads the row of the pair and writes it back in a later commit; other   *)
(* requests are served between the two.                                    *)
(***************************************************************************)
\* Reaction(post_id=..., type=..., count=...)
Reaction(id, post_id, type, count) ==
    [id |-> id, post_id |-> post_id, type |-> type, count |-> count]

\* select(Reaction).where(post_id == ..., type == ...): the positions of the rows
ReactionsOf(post_id, type) ==
    {i \in 1..Len(reactions) : reactions[i].post_id = post_id /\ reactions[i].type = type}

\* add_reaction up to the result of the select: 404 without the post,
\* MultipleResultsFound from scalar_one_or_none on more than one row, else the
\* row as loaded (or none); payload is [type], <<>> for a missing key
add_reaction(c, slug, payload) ==
    /\ calls[c] = Idle
    /\ LET found == get_post_by_slug(slug)
           post_id == CHOOSE id \in found : TRUE
           reaction_type == IF payload.type = <<>> \/ payload.type = <<"">> THEN "like"
                            ELSE payload.type[1]
           existing == ReactionsOf(post_id, reaction_type)
       IN  calls' = [calls EXCEPT ![c] =
                        IF found = {}
                        THEN [pc |-> "done", op |-> "add_reaction", status |-> 404]
                        ELSE IF Cardinality(existing) > 1
                        THEN [pc |-> "done", op |-> "add_reaction", status |-> 500,
                              post_id |-> post_id, type |-> reaction_type]
                        ELSE [pc |-> "commit", op |-> "add_reaction",
                              post_id |-> post_id, type |-> reaction_type,
                              reaction |-> IF existing = {} THEN <<>>
                                           ELSE <<reactions[CHOOSE i \in existing : TRUE]>>]]
    /\ UNCHANGED <<posts, projects, comments, reactions, audit_logs, settings, uuids,
                   uploads>>
    /\ UNCHANGED <<store, contact_messages>>
    /\ UNCHANGED authVars
    /\ UNCHANGED pipeVars

\* the rest of add_reaction: count += 1 on the loaded row, or a new row with
\* count 1, then the commit that writes it
add_reaction_commit(c) ==
    /\ calls[c].pc = "commit"
    /\ reactions' =
           IF calls[c].reaction = <<>>
           THEN Append(reactions,
                       Reaction(Len(reactions) + 1, calls[c].post_id, calls[c].type, 1))
           ELSE [i \in 1..Len(reactions) |->
                    IF reactions[i].id = calls[c].reaction[1].id
                    THEN [reactions[i] EXCEPT !.count = calls[c].reaction[1].count + 1]
                    ELSE reactions[i]]
    /\ calls' = [calls EXCEPT ![c] =
                    [pc |-> "done", op |-> "add_reaction", status |-> 200,
                     post_id |-> calls[c].post_id, type |-> calls[c].type]]
    /\ UNCHANGED <<posts, projects, comments, audit_logs, settings, uuids, uploads>>
    /\ UNCHANGED <<store, contact_messages>>
    /\ UNCHANGED authVars
    /\ UNCHANGED pipeVars

(***************************************************************************)
(* The project list of the portfolio home page (GET /) and the settings    *)
(* form of the admin pages that configures it.                             *)
(***************************************************************************)
\* the ids of a table's rows, order_by(created_at.desc()); rows of one
\* created_at in the order of their ids
NewestFirst(table) ==
    [i \in 1..Cardinality(DOMAIN table) |->
        CHOOSE id \in DOMAIN table :
            Cardinality({other \in DOMAIN table :
                            \/ table[other].created_at > table[id].created_at
                            \/ /\ table[other].created_at = table[id].created_at
                               /\ other < id}) = i - 1]

\* ProjectService.get_projects(featured=..., limit=...): featured is <<>> for
\* None; a negative LIMIT is no limit
get_projects(table, featured, limit) ==
    LET rows == SelectSeq(NewestFirst(table),
                          LAMBDA id : featured = <<>> \/ table[id].featured = featured[1])
    IN  IF limit < 0 \/ limit > Len(rows) THEN rows ELSE SubSeq(rows, 1, limit)

\* ProjectService.get_featured_projects
get_featured_projects(table, limit) == get_projects(table, <<TRUE>>, limit)

\* projects_limit and featured_only of home, from the settings row
projects_limit(row) ==
    IF row = <<>> \/ row[1].home_projects_count = 0 THEN 4
    ELSE row[1].home_projects_count

featured_only(row) == row # <<>> /\ row[1].home_projects_featured_only

\* as home_projects, the fill-ins taken without looking at existing_ids
HomeProjectsRepeating(table, row) ==
    LET limit == projects_limit(row)
        featured == get_featured_projects(table, limit)
    IN  IF ~featured_only(row) /\ Len(featured) < limit
        THEN LET all_projects == get_projects(table, <<>>,
                                              IF 24 > limit * 3 THEN 24 ELSE limit * 3)
                 wanted == limit - Len(featured)
             IN  featured \o SubSeq(all_projects, 1,
                                    IF wanted < Len(all_projects) THEN wanted
                                    ELSE Len(all_projects))
        ELSE featured

\* the projects home hands to the template: the featured ones and, unless
\* featured-only, the newest others until the limit is reached
home_projects(table, row) ==
    LET limit == projects_limit(row)
        featured == get_featured_projects(table, limit)
    IN  IF ~featured_only(row) /\ Len(featured) < limit
        THEN LET all_projects == get_projects(table, <<>>,
                                              IF 24 > limit * 3 THEN 24 ELSE limit * 3)
                 existing_ids == {featured[i] : i \in 1..Len(featured)}
                 others == SelectSeq(all_projects, LAMBDA id : id \notin existing_ids)
                 wanted == limit - Len(featured)
             IN  featured \o SubSeq(others, 1,
                                    IF wanted < Len(others) THEN wanted ELSE Len(others))
        ELSE featured

\* GET / of the portfolio application; the body is the ids of the project cards
home ==
    /\ resp = NoRequest
    /\ resp' = [NoRequest EXCEPT
                    !.op = "home", !.route = <<"GET", "/">>, !.status = 200,
                    !.body = home_projects(projects, settings)]
    /\ UNCHANGED <<users, now, secret, minted, jar, cleared, mintedBeforeBan>>
    /\ UNCHANGED pipeVars
    /\ UNCHANGED contentVars

\* _as_int: raw is <<n>> for text that int() reads as n, <<>> for any other
_as_int(raw, default, min_value, max_value) ==
    IF raw = <<>> THEN default
    ELSE LET capped == IF raw[1] > max_value THEN max_value ELSE raw[1]
         IN  IF capped < min_value THEN min_value ELSE capped

\* POST /admin/settings; form is [home_projects_count, home_projects_mode]
admin_settings_save(cookie, form) ==
    /\ resp = NoRequest
    /\ Len(audit_logs) + PendingAudits < MaxAudit
    /\ LET found == get_current_user_optional(cookie)
           user == found.user
           request == [NoRequest EXCEPT !.op = "admin_settings_save",
                                        !.route = <<"POST", "/admin/settings">>,
                                        !.cookie = cookie, !.user = user]
       IN  IF ~_is_admin(user)
           THEN /\ resp' = _redirect_login(request)
                /\ UNCHANGED <<settings, audit_logs>>
           ELSE /\ resp' = [request EXCEPT
                                !.status = 303,
                                !.location = _toast_redirect("/admin/settings",
                                                             "Settings%20saved")]
                /\ settings' =
                       <<[home_projects_count |->
                              _as_int(form.home_projects_count, 4, 3, 6),
                          home_projects_featured_only |->
                              form.home_projects_mode = "featured_only"]>>
                /\ audit_logs' = Append(audit_logs,
                                        AuditLog(user, "update", "settings", 1))
    /\ UNCHANGED <<users, now, secret, minted, jar, cleared, mintedBeforeBan>>
    /\ UNCHANGED pipeVars
    /\ UNCHANGED <<store, contact_messages, posts, projects, comments, reactions, uuids,
                   uploads, calls>>

(***************************************************************************)
(* The audit event stream of the admin pages (GET /sse/audit/stream).      *)
(* Audit-log rows are never deleted and created_at grows with creation,    *)
(* so the newest row is the last of audit_logs.                            *)
(***************************************************************************)
Heartbeat == [type |-> "heartbeat"]

\* the audit event built from an audit-log row
AuditEvent(row) ==
    [type |-> "audit", id |-> row.id, action |-> row.action, entity |-> row.entity,
     entity_id |-> row.entity_id]

\* select(AuditLog).order_by(created_at.desc()).limit(1), scalar_one_or_none
LatestAudit == IF audit_logs = <<>> THEN <<>> ELSE <<audit_logs[Len(audit_logs)]>>

\* sse_audit_stream: the redirect for a visitor who is not an administrator,
\* or the streaming response whose generator has not run yet
sse_audit_stream(c, cookie) ==
    /\ calls[c] = Idle
    /\ LET found == get_current_user_optional(cookie)
       IN  calls' = [calls EXCEPT ![c] =
                        IF ~_is_admin(found.user)
                        THEN [pc |-> "done", op |-> "sse_audit_stream", status |-> 303]
                        ELSE [pc |-> "stream", op |-> "sse_audit_stream", last_id |-> <<>>,
                              events |-> <<>>, disconnected |-> FALSE]]
    /\ UNCHANGED <<posts, projects, comments, reactions, audit_logs, settings, uuids,
                   uploads>>
    /\ UNCHANGED <<store, contact_messages>>
    /\ UNCHANGED authVars
    /\ UNCHANGED pipeVars

\* the client of a stream goes away
Disconnect(c) ==
    /\ calls[c].pc = "stream"
    /\ ~calls[c].disconnected
    /\ calls' = [calls EXCEPT ![c].disconnected = TRUE]
    /\ UNCHANGED <<posts, projects, comments, reactions, audit_logs, settings, uuids,
                   uploads>>
    /\ UNCHANGED <<store, contact_messages>>
    /\ UNCHANGED authVars
    /\ UNCHANGED pipeVars

\* as event_stream, last_id left as it was
EventStreamForgetting(c) ==
    /\ calls[c].pc = "stream"
    /\ IF calls[c].disconnected
       THEN calls' = [calls EXCEPT ![c] =
                         [pc |-> "done", op |-> "sse_audit_stream", status |-> 200,
                          events |-> calls[c].events]]
       ELSE /\ Len(calls[c].events) < MaxPolls
            /\ IF LatestAudit # <<>> /\ <<LatestAudit[1].id>> # calls[c].last_id
               THEN calls' = [calls EXCEPT
                                 ![c].events = Append(@, AuditEvent(LatestAudit[1]))]
               ELSE calls' = [calls EXCEPT ![c].events = Append(@, Heartbeat)]
    /\ UNCHANGED <<posts, projects, comments, reactions, audit_logs, settings, uuids,
                   uploads>>
    /\ UNCHANGED <<store, contact_messages>>
    /\ UNCHANGED authVars
    /\ UNCHANGED pipeVars

\* event_stream: one iteration of the generator's loop, up to its sleep; the
\* generator ends when the request is found disconnected
event_stream(c) ==
    /\ calls[c].pc = "stream"
    /\ IF calls[c].disconnected
       THEN calls' = [calls EXCEPT ![c] =
                         [pc |-> "done", op |-> "sse_audit_stream", status |-> 200,
                          events |-> calls[c].events]]
       ELSE /\ Len(calls[c].events) < MaxPolls
            /\ IF LatestAudit # <<>> /\ <<LatestAudit[1].id>> # calls[c].last_id
               THEN calls' = [calls EXCEPT
                                 ![c].last_id = <<LatestAudit[1].id>>,
                                 ![c].events = Append(@, AuditEvent(LatestAudit[1]))]
               ELSE calls' = [calls EXCEPT ![c].events = Append(@, Heartbeat)]
    /\ UNCHANGED <<posts, projects, comments, reactions, audit_logs, settings, uuids,
                   uploads>>
    /\ UNCHANGED <<store, contact_messages>>
    /\ UNCHANGED authVars
    /\ UNCHANGED pipeVars

(***************************************************************************)
(* Specifications.                                                         *)
(***************************************************************************)
\* the content tables after init_db and seed_db on no database file
DataInit ==
    /\ posts = seed_db(EmptyDatabase).posts
    /\ projects = seed_db(EmptyDatabase).projects
    /\ comments = seed_db(EmptyDatabase).comments
    /\ settings = seed_db(EmptyDatabase).settings
    /\ uuids = seed_db(EmptyDatabase).uuids
    /\ reactions = <<>>
    /\ audit_logs = <<>>
    /\ uploads = 0
    /\ calls = [c \in Connections |-> Idle]

\* the state after lifespan (init_db, seed_db)
AuthInit ==
    /\ DataInit
    /\ users = (AdminId :> SeedAdmin)
    /\ now = 0
    /\ secret = 0
    /\ minted = {}
    /\ jar = NoCookie
    /\ cleared = {}
    /\ mintedBeforeBan = {}
    /\ resp = NoRequest
    /\ store = [table \in ContentTables |-> 0]
    /\ contact_messages = <<>>

PipeInit(modes) ==
    /\ env \in modes
    /\ pageviews = <<>>
    /\ tasks = <<>>
    /\ dropped = 0
    /\ scheduled = 0
    /\ mw = <<>>

Init == AuthInit /\ PipeInit({"development"})

Next ==
    \/ \E email \in Emails, password \in Passwords : Login(email, password)
    \/ GithubStart
    \/ Logout
    \/ Deliver
    \/ \E cookie \in CookieInputs : Me(cookie)
    \/ \E cookie \in CookieInputs : AdminApi(cookie)
    \/ \E id \in UserIds, password \in {<<>>, <<OTHER_PASSWORD>>} :
           CreateUser(id, password, FALSE)
    \/ \E id \in UserIds : BanUser(id)
    \/ \E d \in TickSteps : Tick(d)
    \/ Restart

Spec == Init /\ [][Next]_vars

(***************************************************************************)
(* Requests through the pipeline.                                          *)
(***************************************************************************)
SITE_HOST == "admin.example.com"
LOCAL_HOST == "localhost:8002"
EVIL_HOST == "evil.example"
CLIENT_IP == "203.0.113.7"
CLIENT_IP6 == "2001:db8::17"

Url(scheme, host, rest) == scheme \o "://" \o host \o rest

SiteOrigin == Url("https", SITE_HOST, "")
EvilOrigin == Url("https", EVIL_HOST, "")
SitePage == Url("https", SITE_HOST, "/admin/posts")
EvilPage == Url("https", EVIL_HOST, "/page")
\* a page of the other site whose query string quotes a URL of this site
EvilPageQuotingSite == Url("https", EVIL_HOST, "/?next=" \o SitePage)

\* the site a header value really names
UrlsOn(host) ==
    IF host = SITE_HOST THEN {SiteOrigin, SitePage}
    ELSE IF host = EVIL_HOST THEN {EvilOrigin, EvilPage, EvilPageQuotingSite}
    ELSE {}

ModeValues == {"Production", "development", "staging"}
GeneratedIds == {"0b9f6c1e-generated"}

\* what call_next gives: a route's response, or an exception
RouteOutcome(status, headers) ==
    [outcome |-> "response", status |-> status, headers |-> headers]
RouteRaises == [outcome |-> "raised", status |-> 500, headers |-> <<>>]

\* form posts and partial-page posts: what the cross-origin guard reads varies
SecurityRequests ==
    [method : {"POST"},
     path : {"/admin", "/static/app.css", "/healthz"},
     hx_request : {<<>>, <<"true">>, <<"">>},
     origin : {<<>>, <<SiteOrigin>>, <<EvilOrigin>>},
     referer : {<<>>, <<SitePage>>, <<EvilPage>>, <<EvilPageQuotingSite>>},
     host : {<<SITE_HOST>>, <<LOCAL_HOST>>},
     x_request_id : {<<>>, <<"req-7f3a">>},
     client : {<<CLIENT_IP>>},
     user_agent : {<<"Mozilla/5.0">>}]

SecurityOutcomes ==
    {RouteOutcome(200, ("X-Frame-Options" :> "SAMEORIGIN")),
     RouteOutcome(404, ("content-type" :> "application/json")),
     RouteRaises}

InitSecurity == AuthInit /\ PipeInit(ModeValues)

NextSecurity ==
    \/ \E request \in SecurityRequests, generated \in GeneratedIds,
          downstream \in SecurityOutcomes :
           AdminRequest(request, generated, downstream)
    \/ Sent

SpecSecurity == InitSecurity /\ [][NextSecurity]_vars

\* page loads and posts: what the pageview capture reads varies
PageviewRequests ==
    [method : {"GET", "POST"},
     path : {"/admin", "/static/app.css", "/api/healthz", "/healthz", "/status"},
     hx_request : {<<>>, <<"true">>},
     origin : {<<>>},
     referer : {<<>>, <<SitePage>>},
     host : {<<SITE_HOST>>},
     x_request_id : {<<>>},
     client : {<<>>, <<CLIENT_IP>>, <<CLIENT_IP6>>},
     user_agent : {<<"Mozilla/5.0">>}]

PageviewOutcomes ==
    {RouteOutcome(200, ("content-type" :> "text/html")),
     RouteOutcome(399, ("content-type" :> "text/html")),
     RouteOutcome(400, ("content-type" :> "text/html")),
     RouteRaises}

InitPageview == AuthInit /\ PipeInit({"production"})

NextPageview ==
    \/ \E request \in PageviewRequests, generated \in GeneratedIds,
          downstream \in PageviewOutcomes :
           AdminRequest(request, generated, downstream)
    \/ Sent
    \/ \E i \in 1..Len(tasks) : StorePageview(i)
    \/ \E i \in 1..Len(tasks) : StorePageviewFails(i)
    \/ Shutdown

SpecPageview == InitPageview /\ [][NextPageview]_vars

(***************************************************************************)
(* The resolver on every kind of cookie value: tokens signed at time 0 by  *)
(* a holder of the key for any subject, and what can be made of them.      *)
(***************************************************************************)
\* jwt.encode of claims with that subject, expiring one lifetime after time 0
SignedToken(sub, key) ==
    [alg |-> ALGORITHM,
     claims |-> [sub |-> sub, exp |-> ACCESS_TOKEN_EXPIRE_MINUTES, iat |-> 0,
                 iss |-> JWT_ISSUER, aud |-> JWT_AUDIENCE, jti |-> 0],
     key |-> key]

ResolverSubjects ==
    {<<>>, <<"">>, <<"not-a-uuid">>, <<UuidStr(AdminId)>>, <<UuidStr(OtherId)>>}

ResolverTokens ==
    {SignedToken(sub, 0) : sub \in ResolverSubjects}
        \cup Forged(SignedToken(<<UuidStr(AdminId)>>, 0))
        \cup {[SignedToken(<<UuidStr(AdminId)>>, 0) EXCEPT !.alg = "none"]}

ResolverCookieTexts == {"Bearer ", "bearer ", "BEARER ", "Basic ", "Bearer", "Bearer  "}

ResolverCookies ==
    {NoCookie}
        \cup TextOnlyCookies
        \cup {Cookie(text, <<t>>) : text \in ResolverCookieTexts, t \in ResolverTokens}

InitResolver == AuthInit /\ PipeInit({"development"})

NextResolver ==
    \/ \E cookie \in ResolverCookies : Me(cookie)
    \/ \E cookie \in ResolverCookies : AdminApi(cookie)
    \/ Deliver
    \/ \E id \in UserIds, password \in {<<>>, <<OTHER_PASSWORD>>} :
           CreateUser(id, password, FALSE)
    \/ \E id \in UserIds : BanUser(id)
    \/ \E d \in TickSteps : Tick(d)
    \/ Restart

SpecResolver == InitResolver /\ [][NextResolver]_vars

(***************************************************************************)
(* Signing in through the API and through the admin pages, the browser     *)
(* presenting the cookie it holds.                                         *)
(***************************************************************************)
LoginEmails == {ADMIN_EMAIL, OTHER_EMAIL, "nobody@example.com", " admin@example.com"}
LoginPasswords == {ADMIN_PASSWORD, OTHER_PASSWORD, "admin123 ", ""}

InitLogin == AuthInit /\ PipeInit({"development"})

NextLogin ==
    \/ \E email \in LoginEmails, password \in LoginPasswords : Login(email, password)
    \/ \E email \in LoginEmails, password \in LoginPasswords :
           login_submit(email, password)
    \/ GithubStart
    \/ Logout
    \/ Deliver
    \/ Me(jar)
    \/ \E id \in UserIds, password \in {<<>>, <<OTHER_PASSWORD>>} :
           CreateUser(id, password, FALSE)
    \/ \E id \in UserIds : BanUser(id)
    \/ \E d \in TickSteps : Tick(d)
    \/ Restart

SpecLogin == InitLogin /\ [][NextLogin]_vars

(***************************************************************************)
(* Callers of the admin pages: without a cookie, with a cookie of another  *)
(* scheme, with a foreign-signed token, as an editor and as administrator. *)
(***************************************************************************)
AdminWebCookies ==
    {NoCookie,
     Cookie("Basic ", <<SignedToken(<<UuidStr(AdminId)>>, 0)>>),
     BearerCookie(SignedToken(<<UuidStr(AdminId)>>, -1)),
     BearerCookie(SignedToken(<<UuidStr(OtherId)>>, 0)),
     BearerCookie(SignedToken(<<UuidStr(AdminId)>>, 0))}

InitAdminWeb == AuthInit /\ PipeInit({"development"})

NextAdminWeb ==
    \/ \E route \in AdminWebRoutes, cookie \in AdminWebCookies : AdminWeb(route, cookie)
    \/ Deliver
    \/ \E id \in UserIds, password \in {<<>>, <<OTHER_PASSWORD>>} :
           CreateUser(id, password, FALSE)
    \/ \E id \in UserIds : BanUser(id)

SpecAdminWeb == InitAdminWeb /\ [][NextAdminWeb]_vars

\* visitors submitting the contact form
InitContact == AuthInit /\ PipeInit({"production"})

NextContact ==
    \/ \E name \in ContactNames, email \in ContactEmails, message \in ContactMessages :
           contact_form_submit(name, email, message)
    \/ Deliver
    \/ \E d \in TickSteps : Tick(d)

SpecContact == InitContact /\ [][NextContact]_vars

(***************************************************************************)
(* Readers commenting on posts while the administrator moderates.          *)
(***************************************************************************)
CommentPayload(content, guest_name, guest_email) ==
    [content |-> content, guest_name |-> guest_name, guest_email |-> guest_email]

CommentPayloads ==
    {CommentPayload(<<" Nice post. ">>, <<" Ana ">>, <<"ana@example.org">>),
     CommentPayload(<<"<b>Hi</b>">>, <<" Ana ">>, <<>>),
     CommentPayload(<<" Nice post. ">>, <<>>, <<>>),
     CommentPayload(<<"<b>Hi</b>">>, <<"  ">>, <<"ana@example.org">>),
     CommentPayload(<<>>, <<" Ana ">>, <<>>),
     CommentPayload(<<" \n">>, <<" Ana ">>, <<"ana@example.org">>),
     CommentPayload(<<"">>, <<>>, <<>>)}

CommentCookies ==
    {NoCookie,
     BearerCookie(SignedToken(<<UuidStr(OtherId)>>, 0)),
     BearerCookie(SignedToken(<<UuidStr(AdminId)>>, 0))}

\* the comments moderation names: a seeded one, a posted one, and none
ModeratedIds == {1, 4, 9}

InitComments == AuthInit /\ PipeInit({"production"})

NextComments ==
    \/ \E slug \in CommentSlugs, cookie \in CommentCookies, payload \in CommentPayloads :
           create_comment(slug, cookie, payload)
    \/ \E slug \in CommentSlugs : get_comments(slug)
    \/ \E id \in ModeratedIds, cookie \in CommentCookies :
           admin_comment_delete(id, cookie)
    \/ \E id \in ModeratedIds, cookie \in CommentCookies :
           admin_comment_restore(id, cookie)
    \/ Deliver
    \/ \E id \in UserIds : CreateUser(id, <<OTHER_PASSWORD>>, FALSE)
    \/ \E id \in UserIds : BanUser(id)

SpecComments == InitComments /\ [][NextComments]_vars

(***************************************************************************)
(* Clients of the admin API on two connections.                            *)
(***************************************************************************)
\* the ids requests name: a seeded post, a seeded project, the row created
\* by a request, and no row
ApiTargets == {1, 6, 11, 99}

ApiPayloads ==
    {ApiPayload(<<"New entry">>, <<"new-entry">>, <<>>),
     ApiPayload(<<"Again">>, <<SeedPostSlugs[2]>>, <<>>),
     ApiPayload(<<>>, <<>>, <<TRUE>>)}

ApiCookies ==
    {NoCookie,
     BearerCookie(SignedToken(<<UuidStr(OtherId)>>, 0)),
     BearerCookie(SignedToken(<<UuidStr(AdminId)>>, 0))}

InitApi == AuthInit /\ PipeInit({"production"})

NextApi ==
    \/ \E c \in CallIds, op \in {"create_post", "create_project"}, cookie \in ApiCookies,
          payload \in ApiPayloads :
           AdminMutation(c, op, cookie, 0, payload)
    \/ \E c \in CallIds, op \in {"update_post", "update_project"}, cookie \in ApiCookies,
          target \in ApiTargets, payload \in ApiPayloads :
           AdminMutation(c, op, cookie, target, payload)
    \/ \E c \in CallIds, op \in {"delete_post", "delete_project"}, cookie \in ApiCookies,
          target \in ApiTargets :
           AdminMutation(c, op, cookie, target, ApiPayload(<<>>, <<>>, <<>>))
    \/ \E c \in CallIds, cookie \in ApiCookies, content \in {"", "%PDF-1.7"} :
           AdminMutation(c, "files_upload", cookie, 0, content)
    \/ \E c \in CallIds : ApiAudit(c)
    \/ \E c \in CallIds : Return(c)
    \/ \E id \in UserIds : CreateUser(id, <<OTHER_PASSWORD>>, FALSE)

SpecApi == InitApi /\ [][NextApi]_vars

(***************************************************************************)
(* Audit streams next to the mutations that write the audit log.           *)
(***************************************************************************)
InitStream == AuthInit /\ PipeInit({"production"})

NextStream ==
    \/ \E c \in CallIds, cookie \in ApiCookies : sse_audit_stream(c, cookie)
    \/ \E c \in CallIds : event_stream(c)
    \/ \E c \in CallIds : Disconnect(c)
    \/ \E c \in CallIds, op \in {"delete_post", "delete_project"}, target \in ApiTargets :
           AdminMutation(c, op, BearerCookie(SignedToken(<<UuidStr(AdminId)>>, 0)),
                         target, ApiPayload(<<>>, <<>>, <<>>))
    \/ \E c \in CallIds : ApiAudit(c)
    \/ \E c \in CallIds : Return(c)
    \/ \E id \in UserIds : CreateUser(id, <<OTHER_PASSWORD>>, FALSE)

SpecStream == InitStream /\ [][NextStream]_vars

(***************************************************************************)
(* The home page next to the administrator's changes of projects and       *)
(* settings.                                                               *)
(***************************************************************************)
HomeCountInputs == {<<>>, <<2>>, <<3>>, <<5>>, <<6>>, <<9>>}
HomeModes == {"featured_only", "latest"}
\* the ids of the seeded projects and the id a created project gets
HomeTargets == DOMAIN seed_db(EmptyDatabase).projects \cup {MaxUuids}
HomeAdminCookie == BearerCookie(SignedToken(<<UuidStr(AdminId)>>, 0))

InitHome == AuthInit /\ PipeInit({"production"})

NextHome ==
    \/ home
    \/ Deliver
    \/ \E cookie \in {NoCookie, HomeAdminCookie}, raw \in HomeCountInputs, mode \in HomeModes :
           admin_settings_save(cookie, [home_projects_count |-> raw,
                                        home_projects_mode |-> mode])
    \/ \E featured \in BOOLEAN :
           AdminMutation(1, "create_project", HomeAdminCookie, 0,
                         ApiPayload(<<"New entry">>, <<"new-entry">>, <<featured>>))
    \/ \E target \in HomeTargets, featured \in BOOLEAN :
           AdminMutation(1, "update_project", HomeAdminCookie, target,
                         ApiPayload(<<>>, <<>>, <<featured>>))
    \/ \E target \in HomeTargets :
           AdminMutation(1, "delete_project", HomeAdminCookie, target,
                         ApiPayload(<<>>, <<>>, <<>>))
    \/ ApiAudit(1)
    \/ Return(1)

SpecHome == InitHome /\ [][NextHome]_vars

(***************************************************************************)
(* Reaction requests, one per connection, in any interleaving.             *)
(***************************************************************************)
ReactionSlugs == {SeedPostSlugs[1], SeedPostSlugs[2], "no-such-post"}
ReactionPayloads == {[type |-> <<>>], [type |-> <<"like">>], [type |-> <<"love">>]}

InitReactions == AuthInit /\ PipeInit({"production"})

NextReactions ==
    \/ \E c \in ReactionCalls, slug \in ReactionSlugs, payload \in ReactionPayloads :
           add_reaction(c, slug, payload)
    \/ \E c \in ReactionCalls : add_reaction_commit(c)

SpecReactions == InitReactions /\ [][NextReactions]_vars

(***************************************************************************)
(* Properties of the session core, checked under Spec.  resp describes a   *)
(* request handled in the current state: no step separates the resolution  *)
(* from the state the formulas read.                                       *)
(***************************************************************************)
\* the JWT t is signed with the current secret and the clock is before its expiry
Unexpired(t) == t.key = secret /\ now < t.claims.exp

\* the stored accounts whose id is the subject claim of t
SubjectAccounts(t) == {u \in DOMAIN users : t.claims.sub = <<UuidStr(u)>>}

\* C1: a token minted by create_access_token for an existing, non-banned account,
\* presented as set_auth_cookie stores it, before its expiry and with the secret
\* unchanged, resolves through get_current_user_optional to exactly the account
\* of its subject claim.
C1_ValidTokenResolvesToSubject ==
    \A t \in minted : \A u \in SubjectAccounts(t) :
        (resp.op = "me" /\ resp.cookie = BearerCookie(t) /\ Unexpired(t)
            /\ ~users[u].is_banned)
        => (resp.user = <<u>> /\ resp.raised = "" /\ resp.status = 200)

\* C1 witness: with two accounts stored, a token of the second one resolved to it
C1_Witness ==
    \E t \in minted :
        /\ resp.op = "me" /\ resp.cookie = BearerCookie(t) /\ Unexpired(t)
        /\ AdminId \in DOMAIN users
        /\ resp.user = <<OtherId>>

\* the JWT t is expired, signed with another secret, or has a wrong issuer or audience
Invalid(t) ==
    \/ now > t.claims.exp
    \/ t.key # secret
    \/ t.claims.iss # JWT_ISSUER
    \/ t.claims.aud # JWT_AUDIENCE

\* C2: for an expired token, a token signed with a different secret and a token
\* with a wrong issuer or audience, decode_access_token returns None without
\* raising and get_current_user_optional returns no account.
C2_InvalidTokenResolvesToNone ==
    (resp.op = "me" /\ resp.cookie.jwt # <<>> /\ Invalid(resp.cookie.jwt[1]))
    => /\ resp.user = <<>>
       /\ resp.raised = ""
       /\ decode_access_token(TokenString(resp.cookie.jwt[1]))
              = [raised |-> "", payload |-> <<>>]

\* C2 witness: a minted token, correctly signed, presented after its expiry
C2_Witness ==
    \E t \in minted :
        /\ resp.op = "me" /\ resp.cookie = BearerCookie(t)
        /\ t.key = secret /\ now > t.claims.exp
        /\ resp.user = <<>> /\ resp.status = 401

\* C3: a token minted for an account before the account was banned resolves to
\* no account in every later resolution, optional (GET /api/auth/me) or required
\* (an administrator route, answered 401).
C3_BannedAccountNeverResolves ==
    (resp.op \in {"me", "admin"} /\ resp.cookie.jwt # <<>>
        /\ resp.cookie.jwt[1] \in mintedBeforeBan)
    => (resp.user = <<>> /\ resp.status = 401)

\* C3 witness: a required resolution of a still unexpired, correctly signed token
\* minted before the ban of its account
C3_Witness ==
    \E t \in mintedBeforeBan :
        /\ resp.op = "admin" /\ resp.cookie = BearerCookie(t) /\ Unexpired(t)
        /\ resp.user = <<>>

\* C4 as claimed: a request presenting a cookie value that a logout has cleared
\* is resolved to no account.
C4_OldCookieIsAnonymous ==
    (resp.op = "me" /\ resp.cookie \in cleared) => resp.user = <<>>

\* C4 amended: the logout response deletes the cookie, so the browser no longer
\* holds a cleared value and a request without the cookie is anonymous; a request
\* that still presents a cleared value is resolved as before the logout, to the
\* account of its token while the token is unexpired and correctly signed and the
\* account is not banned.
C4_LogoutOnlyDeletesCookie ==
    /\ resp.op = "logout" => (resp.delete_cookie /\ resp.set_cookie = <<>>)
    /\ jar \notin cleared
    /\ (resp.op = "me" /\ ~resp.cookie.present) => resp.user = <<>>
    /\ \A t \in minted : \A u \in SubjectAccounts(t) :
           (resp.op = "me" /\ resp.cookie = BearerCookie(t) /\ resp.cookie \in cleared
               /\ Unexpired(t) /\ ~users[u].is_banned)
           => resp.user = <<u>>

\* C4 witness: after a logout the old cookie value was presented and resolved
C4_Witness ==
    /\ resp.op = "me" /\ resp.cookie \in cleared /\ resp.user # <<>>
    /\ jar = NoCookie

\* C5: every minted token is decoded to its claims by decode_access_token at every
\* moment before its expiry while the secret is the one it was signed with,
\* whatever logins, logouts, further mints and store writes have happened.
C5_MintedTokenStaysValid ==
    \A t \in minted :
        Unexpired(t)
        => decode_access_token(TokenString(t)) = [raised |-> "", payload |-> <<t.claims>>]

\* C5 witness: a token whose cookie a logout has cleared, with a second token
\* minted and its account banned since, is still unexpired
C5_Witness ==
    \E t \in minted :
        /\ BearerCookie(t) \in cleared /\ Cardinality(minted) = 2
        /\ t \in mintedBeforeBan /\ Unexpired(t)
        /\ resp.op = "logout"

(***************************************************************************)
(* Properties of the pipeline.  mw describes the request handled by the    *)
(* latest AdminRequest step until its response has been sent.              *)
(***************************************************************************)
\* the header value names the site host
NamesHost(header, host) == header # <<>> /\ host # <<>> /\ header[1] \in UrlsOn(host[1])

SecurityHeaderValues ==
    ("X-Content-Type-Options" :> "nosniff")
        @@ ("X-Frame-Options" :> "DENY")
        @@ ("X-XSS-Protection" :> "1; mode=block")
        @@ ("Referrer-Policy" :> "strict-origin-when-cross-origin")
        @@ ("Permissions-Policy" :> "geolocation=(), microphone=(), camera=()")

\* C7: every response leaving the security middleware, its own 403 included,
\* carries the fixed security headers and the Content-Security-Policy of the
\* deployment mode (the production policy exactly in production).
C7_EveryResponseHardened ==
    (mw # <<>> /\ mw[1].outcome = "response")
    => /\ \A h \in DOMAIN SecurityHeaderValues :
              h \in DOMAIN mw[1].headers /\ mw[1].headers[h] = SecurityHeaderValues[h]
       /\ "Content-Security-Policy" \in DOMAIN mw[1].headers
       /\ mw[1].headers["Content-Security-Policy"]
              = (IF Lower(env) = "production" THEN _get_production_csp
                 ELSE _get_development_csp)

\* C8: every response leaving the security middleware, its own 403 included,
\* carries X-Request-ID: the inbound X-Request-ID when the request has one, else
\* the identifier generated for it; request.state holds the same value.
C8_RequestIdOnEveryResponse ==
    (mw # <<>> /\ mw[1].outcome = "response")
    => /\ "X-Request-ID" \in DOMAIN mw[1].headers
       /\ mw[1].headers["X-Request-ID"]
              = (IF mw[1].request.x_request_id # <<>> THEN mw[1].request.x_request_id[1]
                 ELSE mw[1].generated)
       /\ mw[1].state_request_id = mw[1].headers["X-Request-ID"]

\* C8 witness: a 403 of the guard that carries the inbound request id
C8_Witness ==
    /\ mw # <<>> /\ mw[1].status = 403 /\ ~mw[1].reached_route
    /\ mw[1].request.x_request_id = <<"req-7f3a">>
    /\ mw[1].headers["X-Request-ID"] = "req-7f3a"

\* a GET outside the denylisted prefixes answered with a status below 400
Qualifies(m) ==
    /\ m.outcome = "response"
    /\ m.request.method = "GET"
    /\ ~\E prefix \in {"/static", "/api/healthz", "/healthz", "/status"} :
           StartsWith(m.request.path, prefix)
    /\ m.status < 400

NonQualifying(m) ==
    \/ m.request.method # "GET"
    \/ \E prefix \in {"/static", "/api/healthz", "/healthz", "/status"} :
           StartsWith(m.request.path, prefix)
    \/ (m.outcome = "response" /\ m.status >= 400)

\* C10: a request that is not a GET, or has a denylisted path prefix, or is
\* answered with a status of 400 or above starts no pageview write and leaves the
\* stored pageview events as they were.
C10_NonQualifyingLeavesPageviews ==
    [][(mw = <<>> /\ mw' # <<>> /\ NonQualifying(mw'[1]))
          => (pageviews' = pageviews /\ tasks' = tasks /\ mw'[1].task = <<>>)]_vars

\* C10 witness: with an event stored, a GET answered 400 started no write
C10_Witness ==
    /\ mw # <<>> /\ mw[1].request.method = "GET" /\ mw[1].request.path = "/admin"
    /\ mw[1].status = 400 /\ mw[1].task = <<>>
    /\ Len(pageviews) = 1 /\ tasks = <<>> /\ scheduled = 1

\* the text is n characters long, each a lowercase hexadecimal digit
IsHexOfLength(text, n) ==
    Len(text) = n /\ \A i \in 1..n : SubSeq(text, i, i) \in HexDigitSet

\* C11: the ip_hash of every stored pageview event is absent or the 64
\* hexadecimal characters of the SHA-256 digest of the caller's address, never the
\* address itself: it is so in every state, and every row written takes its
\* ip_hash from the address the write was started with, which is the caller's.
C11_StoredIpIsDigest ==
    /\ [](/\ \A i \in 1..Len(pageviews) :
                 \/ pageviews[i].ip_hash = <<>>
                 \/ /\ IsHexOfLength(pageviews[i].ip_hash[1], 64)
                    /\ pageviews[i].ip_hash[1] \notin {CLIENT_IP, CLIENT_IP6}
          /\ (mw # <<>> /\ mw[1].task # <<>>)
                 => mw[1].task[1].ip = mw[1].request.client)
    /\ [][Len(pageviews') = Len(pageviews) + 1
            => \E i \in 1..Len(tasks) :
                   /\ tasks' = RemoveAt(tasks, i)
                   /\ pageviews'[Len(pageviews')].ip_hash
                          = (IF tasks[i].ip = <<>> THEN <<>>
                             ELSE <<Sha256Hex[tasks[i].ip[1]]>>)]_vars

\* C11 witness: the events of a caller without an address and of a caller at
\* 2001:db8::17 are stored, the second with the digest of that address
C11_Witness ==
    /\ Len(pageviews) = 2
    /\ pageviews[1].ip_hash = <<>>
    /\ pageviews[2].ip_hash
           = <<"48cdfaf0b709e03d86b3e8a67984ec869af9eee94c43e31ea82c784aee9f421d">>

\* C12: while the response of a qualifying GET is on its way, whatever became of
\* its pageview write (pending, stored, failed), the response can be sent, and it
\* is the response the route and the security headers produced for the request,
\* never an error put in its place.
C12_ResponseIndependentOfWrite ==
    (mw # <<>> /\ Qualifies(mw[1]))
    => /\ ENABLED Sent
       /\ \E downstream \in PageviewOutcomes :
              LET inner == SecurityDispatch(mw[1].request, mw[1].generated, downstream)
              IN  /\ downstream.outcome = "response"
                  /\ mw[1].status = downstream.status
                  /\ mw[1].outcome = inner.outcome
                  /\ mw[1].headers = inner.headers

\* C12 witness: the write of the only qualifying GET so far has failed while its
\* response, a 200, is still on its way
C12_Witness ==
    /\ mw # <<>> /\ Qualifies(mw[1]) /\ mw[1].status = 200
    /\ scheduled = 1 /\ dropped = 1 /\ tasks = <<>> /\ pageviews = <<>>

\* C13: every step leaves each stored pageview event as it was: the rows
\* stored before the step are the first rows after it, unchanged.
C13_PageviewsOnlyGrow ==
    [][/\ Len(pageviews') >= Len(pageviews)
       /\ SubSeq(pageviews', 1, Len(pageviews)) = pageviews]_vars

\* C13 witness: a second event is stored beside the first, which is as written
C13_Witness ==
    /\ Len(pageviews) = 2
    /\ pageviews[1].id = 1 /\ pageviews[1].path = "/admin"
    /\ pageviews[2].id = 2

(***************************************************************************)
(* Properties of the resolver, checked under SpecResolver.                 *)
(***************************************************************************)
\* the cookie value reads "Bearer <token>", the scheme in any letter case,
\* followed by one blank and a non-empty token
BearerForm(cookie) ==
    /\ cookie.present
    /\ \/ Lower(cookie.text) = "bearer " /\ cookie.jwt # <<>>
       \/ StartsWith(Lower(cookie.text), "bearer ") /\ Len(cookie.text) > Len("bearer ")

\* the token of the cookie is a JWT that verifies now
ValidToken(cookie) ==
    /\ Lower(cookie.text) = "bearer " /\ cookie.jwt # <<>>
    /\ cookie.jwt[1].alg = "HS256" /\ cookie.jwt[1].key = secret
    /\ cookie.jwt[1].claims.exp >= now
    /\ cookie.jwt[1].claims.iss = "fabiosouza-site"
    /\ cookie.jwt[1].claims.aud = "fabiosouza-web"

\* the stored, non-banned accounts a valid token of the cookie names
Resolves(cookie) ==
    {u \in DOMAIN users :
        /\ BearerForm(cookie) /\ ValidToken(cookie)
        /\ cookie.jwt[1].claims.sub = <<UuidStr(u)>>
        /\ ~users[u].is_banned}

\* C14: get_current_user_optional never raises; for an absent cookie, a cookie
\* not of the form Bearer <token>, an invalid token, a missing or non-uuid
\* subject, a subject naming no stored account and a banned account it returns no
\* account; an account it returns is stored, not banned and the one named.
C14_OptionalResolverIsTotal ==
    resp.op = "me"
    => /\ resp.raised = ""
       /\ ~resp.cookie.present => resp.user = <<>>
       /\ ~BearerForm(resp.cookie) => resp.user = <<>>
       /\ ~ValidToken(resp.cookie) => resp.user = <<>>
       /\ (ValidToken(resp.cookie)
              /\ \/ resp.cookie.jwt[1].claims.sub \in {<<>>, <<"">>, <<"not-a-uuid">>}
                 \/ \A u \in DOMAIN users : resp.cookie.jwt[1].claims.sub # <<UuidStr(u)>>
                 \/ \E u \in DOMAIN users :
                        /\ resp.cookie.jwt[1].claims.sub = <<UuidStr(u)>>
                        /\ users[u].is_banned)
          => resp.user = <<>>
       /\ resp.user # <<>>
          => /\ resp.user[1] \in DOMAIN users
             /\ ~users[resp.user[1]].is_banned
             /\ resp.user[1] \in Resolves(resp.cookie)

\* C14 witness: a correctly signed, unexpired token whose subject is no uuid was
\* presented and no account came back
C14_Witness ==
    /\ resp.op = "me" /\ ValidToken(resp.cookie)
    /\ resp.cookie.jwt[1].claims.sub = <<"not-a-uuid">>
    /\ resp.user = <<>> /\ resp.raised = "" /\ resp.status = 401

\* C15: a route that requires an administrator answers 401 when the cookie
\* resolves to no stored non-banned account, 403 exactly when it resolves to an
\* account without the administrator flag, and admits exactly a resolved
\* administrator.
C15_AdminRouteStatus ==
    resp.op = "admin"
    => /\ resp.raised = ""
       /\ Resolves(resp.cookie) = {} => resp.status = 401
       /\ resp.status = 403
          <=> \E u \in Resolves(resp.cookie) : ~users[u].is_admin
       /\ (resp.status = 200 /\ resp.user # <<>>)
          <=> \E u \in Resolves(resp.cookie) : users[u].is_admin /\ resp.user = <<u>>
       /\ resp.status \in {200, 401, 403}

\* C15 witness: the token of a stored editor was answered 403
C15_Witness ==
    /\ resp.op = "admin" /\ resp.status = 403
    /\ Resolves(resp.cookie) = {OtherId} /\ ~users[OtherId].is_admin

(***************************************************************************)
(* Properties of sequences of requests, checked under Spec.                *)
(***************************************************************************)
\* what _get_user_from_token resolves the minted token t to in this state
ResolveNow(t) == _get_user_from_token(TokenString(t)).user

\* C16: a minted token that resolves to an account before a step resolves to
\* the same account after it, whatever the step, while the token is in its
\* validity window (the secret it was signed with, the clock not past its expiry)
\* and the account has not been banned; past its expiry it resolves to no account.
C16_ResolutionRepeatsWithinWindow ==
    /\ [][\A t \in minted :
            (/\ ResolveNow(t) # <<>>
             /\ t.key = secret' /\ now' <= t.claims.exp
             /\ \A u \in DOMAIN users : ~users[u].is_banned => ~users'[u].is_banned)
            => ResolveNow(t)' = ResolveNow(t)]_vars
    /\ [](\A t \in minted : now > t.claims.exp => ResolveNow(t) = <<>>)

\* C16 witness: a token minted at time 0 is resolved to its account at the last
\* instant of its window, after another login has been answered
C16_Witness ==
    /\ resp.op = "me" /\ resp.user # <<>>
    /\ \E t \in minted :
           /\ resp.cookie = BearerCookie(t)
           /\ t.claims.iat = 0 /\ now = t.claims.exp
           /\ resp.user = ResolveNow(t)
    /\ Cardinality(minted) = 2

(***************************************************************************)
(* Properties of signing in, checked under SpecLogin.                      *)
(***************************************************************************)
\* the response of the current state answers a login that issued a cookie
LoginSucceeded(r) == r.op \in {"login", "login_submit"} /\ r.set_cookie # <<>>

\* C17: no step removes an account, and a step that answers a successful login
\* changes nothing of the users table but the last_login of the account the
\* response names.
C17_LoginTouchesOnlyLastLogin ==
    [][/\ DOMAIN users \subseteq DOMAIN users'
       /\ (resp = NoRequest /\ LoginSucceeded(resp'))
          => /\ DOMAIN users' = DOMAIN users
             /\ \E u \in DOMAIN users :
                    /\ resp'.user = <<u>>
                    /\ users'[u].last_login = now
                    /\ users' = [users EXCEPT ![u].last_login = now]]_vars

\* C17 witness: with two accounts stored, the editor has signed in a whole token
\* lifetime after the seed; the administrator's row is as seeded
C17_Witness ==
    /\ LoginSucceeded(resp) /\ resp.user = <<OtherId>>
    /\ DOMAIN users = {AdminId, OtherId}
    /\ now > 0 /\ users[OtherId].last_login = now
    /\ users[AdminId] = SeedAdmin

\* the stored accounts with that email whose password hash verifies the password
AccountsWith(email, password) ==
    {u \in DOMAIN users :
        /\ users[u].email = email
        /\ users[u].hashed_password # <<>>
        /\ users[u].hashed_password = get_password_hash(password)}

\* the response refuses the login as its route does
LoginRefused(r) ==
    /\ r.set_cookie = <<>>
    /\ IF r.op = "login" THEN r.status = 401
       ELSE r.status = 303 /\ StartsWith(r.location, "/login")

\* the step answers a login without storing anything
RefusalStoresNothing ==
    (resp = NoRequest /\ resp'.op \in {"login", "login_submit"} /\ resp'.set_cookie = <<>>)
    => (users' = users /\ minted' = minted /\ pageviews' = pageviews)

\* C18 as claimed: a login with the email and password of a stored account
\* issues a cookie whose token resolves to that account on the next request; a
\* login with any other email and password issues no cookie, is answered 401 or
\* with a redirect to /login, and stores nothing.
C18_LoginIssuesResolvingCookie ==
    /\ [](resp.op \in {"login", "login_submit"}
            => LET accounts == AccountsWith(resp.form[1], resp.form[2])
               IN  IF accounts # {}
                   THEN /\ resp.set_cookie # <<>>
                        /\ \E u \in accounts :
                               get_current_user_optional(resp.set_cookie[1]).user = <<u>>
                   ELSE LoginRefused(resp))
    /\ [][RefusalStoresNothing]_vars

\* what the route compares with the stored account: POST /login trims the value
SubmittedValue(r, i) == IF r.op = "login_submit" THEN Strip(r.form[i]) ELSE r.form[i]

\* C18 amended: a login whose email and password (for POST /login, after
\* trimming surrounding whitespace) are those of a stored account issues a cookie
\* whose token resolves on the next request to that account when the account is
\* not banned, and to no account when it is banned; any other login issues no
\* cookie, is answered 401 or with a redirect to /login, and stores nothing.
C18_LoginOfTrimmedCredentials ==
    /\ [](resp.op \in {"login", "login_submit"}
            => LET accounts == AccountsWith(SubmittedValue(resp, 1), SubmittedValue(resp, 2))
               IN  IF accounts # {}
                   THEN /\ resp.set_cookie # <<>>
                        /\ \E u \in accounts :
                               /\ resp.user = <<u>>
                               /\ get_current_user_optional(resp.set_cookie[1]).user
                                      = (IF users[u].is_banned THEN <<>> ELSE <<u>>)
                   ELSE LoginRefused(resp))
    /\ [][RefusalStoresNothing]_vars

\* C18 witness: POST /login with a padded email and password of the
\* administrator was answered with the cookie and the redirect to /admin
C18_Witness ==
    /\ resp.op = "login_submit"
    /\ resp.form = <<" admin@example.com", "admin123 ">>
    /\ resp.set_cookie # <<>> /\ resp.status = 303 /\ resp.location = "/admin"
    /\ get_current_user_optional(resp.set_cookie[1]).user = <<AdminId>>

(***************************************************************************)
(* Properties of the admin pages, checked under SpecAdminWeb.              *)
(***************************************************************************)
\* the request is to / or to a path under /admin, /events/ or /sse/ and its
\* cookie resolves to no stored, non-banned administrator
AnonymousOnAdminPath(r) ==
    /\ r.op = "web"
    /\ \/ r.route[2] = "/"
       \/ \E prefix \in {"/admin", "/events/", "/sse/"} : StartsWith(r.route[2], prefix)
    /\ ~\E u \in Resolves(r.cookie) : users[u].is_admin

\* C19: a request to / or to a path under /admin, /events/ or /sse/ whose cookie
\* resolves to no non-banned administrator is answered with a 302 or 303 to
\* /login, and its step writes nothing to a content table.
C19_AdminPagesRedirectAnonymous ==
    /\ [](AnonymousOnAdminPath(resp)
            => (resp.status \in {302, 303} /\ resp.location = "/login"))
    /\ [][(resp = NoRequest /\ AnonymousOnAdminPath(resp')) => store' = store]_vars

(***************************************************************************)
(* Properties of the contact form, checked under SpecContact.              *)
(***************************************************************************)
\* the fields of the submitted form that fail after trimming
FailingFields(form) ==
    {field \in {"name", "email", "message"} :
        \/ field = "name" /\ Len(Strip(form[1])) < 2
        \/ field = "email" /\ \A i \in 1..Len(Strip(form[2])) :
                                  SubSeq(Strip(form[2]), i, i) # "@"
        \/ field = "message" /\ Len(Strip(form[3])) < 10}

\* C20: a contact form whose trimmed name is shorter than 2, whose trimmed
\* email has no "@", or whose trimmed message is shorter than 10 is answered 400
\* with an error for every failing field and stores no message; a form that
\* passes stores exactly one message, the trimmed values, and is answered 200.
C20_ContactFormValidates ==
    /\ [](resp.op = "contact"
            => IF FailingFields(resp.form) # {}
               THEN /\ resp.status = 400
                    /\ {item[1] : item \in resp.errors} = FailingFields(resp.form)
               ELSE /\ resp.status = 200
                    /\ resp.errors = {}
                    /\ contact_messages # <<>>
                    /\ contact_messages[Len(contact_messages)].name = Strip(resp.form[1])
                    /\ contact_messages[Len(contact_messages)].email = Strip(resp.form[2])
                    /\ contact_messages[Len(contact_messages)].message
                           = Strip(resp.form[3]))
    /\ [][(resp = NoRequest /\ resp'.op = "contact")
            => IF FailingFields(resp'.form) # {}
               THEN contact_messages' = contact_messages
               ELSE /\ Len(contact_messages') = Len(contact_messages) + 1
                    /\ SubSeq(contact_messages', 1, Len(contact_messages))
                           = contact_messages]_vars

\* C20 witness: with one message stored, a form whose name is one letter between
\* blanks and whose other fields pass was answered 400 with the name error alone
C20_Witness ==
    /\ resp.op = "contact" /\ resp.status = 400
    /\ resp.form = <<" A ", " @ ", "\tHello there!  ">>
    /\ resp.errors = {<<"name", "Name must have at least 2 characters">>}
    /\ Len(contact_messages) = 1 /\ contact_messages[1].message = "Hello there!"

(***************************************************************************)
(* Comments.                                                               *)
(***************************************************************************)
\* r answers POST /api/comments/{slug} with success
CommentAccepted(r) == r.op = "create_comment" /\ r.status = 200

\* the ids of the items of a listing
ListedIds(listing) == {listing[i].id : i \in 1..Len(listing)}

\* C21: a successful POST /api/comments/{slug} adds exactly one row, a
\* non-deleted top-level comment on the post with that slug, and changes no
\* other row; the listing of the slug then holds the new comment and every
\* item it held before; the comment of a resolved account carries the account's
\* id and neither guest name nor guest email.
C21_AcceptedCommentIsStoredAndListed ==
    [][\A slug \in CommentSlugs :
          (resp = NoRequest /\ CommentAccepted(resp') /\ resp'.route[3] = slug)
          => LET new == comments'[Len(comments')]
             IN  /\ Len(comments') = Len(comments) + 1
                 /\ SubSeq(comments', 1, Len(comments)) = comments
                 /\ new.post_id \in get_post_by_slug(slug)
                 /\ ~new.is_deleted
                 /\ new.parent_id = <<>>
                 /\ new.id \in ListedIds(list_comments(slug)')
                 /\ new.id \notin ListedIds(list_comments(slug))
                 /\ \A i \in 1..Len(list_comments(slug)) :
                        \E j \in 1..Len(list_comments(slug)') :
                            list_comments(slug)'[j] = list_comments(slug)[i]
                 /\ Len(list_comments(slug)') = Len(list_comments(slug)) + 1
                 /\ (resp'.user # <<>>
                        => /\ new.user_id = resp'.user
                           /\ new.guest_name = <<>>
                           /\ new.guest_email = <<>>)]_vars

\* a signed-in author who also sent a guest name has commented on a post that
\* already had a listed comment
C21_Witness ==
    /\ CommentAccepted(resp)
    /\ resp.user # <<>>
    /\ resp.form.guest_name # <<>>
    /\ Len(list_comments(resp.route[3])) >= 2
    /\ comments[Len(comments)].user_id = resp.user

\* the payload value is absent or holds nothing but whitespace
Blank(value) ==
    value = <<>> \/ \A i \in 1..Len(value[1]) : SubSeq(value[1], i, i) \in Whitespace

\* C24: POST /api/comments/{slug} is answered 400 when no account resolves for
\* the caller and the guest name is missing or blank, 400 when the content is
\* empty after trimming, and 404 when neither is so and no post has the slug;
\* in each of these cases no table of the store changes.
C24_RejectedCommentStoresNothing ==
    [][(resp = NoRequest /\ resp'.op = "create_comment")
          => LET anonymous == Resolves(resp'.cookie) = {}
                 no_guest == anonymous /\ Blank(resp'.form.guest_name)
                 no_content == Blank(resp'.form.content)
                 no_post == get_post_by_slug(resp'.route[3]) = {}
             IN  /\ no_guest => resp'.status = 400
                 /\ no_content => resp'.status = 400
                 /\ (no_post /\ ~no_guest /\ ~no_content) => resp'.status = 404
                 /\ (no_guest \/ no_content \/ no_post)
                        => /\ resp'.status \in {400, 404}
                           /\ UNCHANGED <<comments, posts, users, audit_logs>>]_vars

\* a guest who gave a name and a content was answered 404 for a slug of no
\* post, the store holding a comment posted before
C24_Witness ==
    /\ resp.op = "create_comment"
    /\ resp.status = 404
    /\ ~Blank(resp.form.guest_name)
    /\ ~Blank(resp.form.content)
    /\ get_post_by_slug(resp.route[3]) = {}
    /\ Len(comments) = 4

\* the slugs of the posts of the store
StoredSlugs == {posts[id].slug : id \in DOMAIN posts}

\* the slugs whose listing holds the comment with that id
ListedUnder(table, comment_id) ==
    {slug \in StoredSlugs : comment_id \in ListedIds(list_comments_of(table, slug))}

\* r is the answer of the administrator's POST /admin/comments/{id}/<verb>
Moderated(r, verb) == r.op = verb /\ r.status = 303 /\ r.location # "/login"

\* C29: no listing ever holds a deleted comment; delete_comment of a stored
\* comment changes nothing but its is_deleted flag (no row is removed), after it
\* no listing holds the comment, and on a comment already deleted it changes
\* no row; restore_comment changes nothing but the flag, after it the listing of
\* the comment's post holds the comment, and on a comment not deleted it changes
\* no row; and for every listed comment, every listing after delete_comment and
\* then restore_comment of it is the listing before.
C29_DeleteHidesAndRestoreUndoes ==
    /\ [](/\ \A slug \in StoredSlugs :
                 \A id \in ListedIds(list_comments(slug)) : ~comments[id].is_deleted
          /\ \A id \in DOMAIN comments :
                 ~comments[id].is_deleted
                     => \A slug \in StoredSlugs :
                            list_comments_of(
                                restore_comment(delete_comment(comments, id), id), slug)
                                = list_comments(slug))
    /\ [][\A id \in DOMAIN comments :
             /\ (resp = NoRequest /\ Moderated(resp', "delete") /\ resp'.route[3] = id)
                    => /\ comments' = [comments EXCEPT ![id].is_deleted = TRUE]
                       /\ ListedUnder(comments', id) = {}
                       /\ comments[id].is_deleted => comments' = comments
             /\ (resp = NoRequest /\ Moderated(resp', "restore") /\ resp'.route[3] = id)
                    => /\ comments' = [comments EXCEPT ![id].is_deleted = FALSE]
                       /\ ListedUnder(comments', id) = {posts[comments[id].post_id].slug}
                       /\ ~comments[id].is_deleted => comments' = comments]_vars

\* the administrator has deleted the posted comment and then restored it, and
\* the comment is listed
C29_Witness ==
    /\ Moderated(resp, "restore")
    /\ Len(audit_logs) = 2
    /\ audit_logs[1].action = "delete" /\ audit_logs[1].entity_id = 4
    /\ audit_logs[2].action = "restore" /\ audit_logs[2].entity_id = 4
    /\ ListedUnder(comments, 4) # {}

(***************************************************************************)
(* The cross-origin guard, exactly.                                        *)
(***************************************************************************)
\* C22: the security middleware answers 403 without calling the route exactly
\* when the path starts with none of the skip prefixes, the HX-Request header
\* has a value, neither the Origin nor the Referer is a URL of the host that
\* the Host header names, and it is not so that development mode is on and
\* Host contains localhost or 127.0.0.1; every other request reaches the route.
C22_GuardRejectsExactlyForeignPartials ==
    mw # <<>>
    => LET request == mw[1].request
           foreign ==
               /\ ~\E skip \in SKIP_HTMX_VALIDATION : StartsWith(request.path, skip)
               /\ HeaderGet(request.hx_request, "") # ""
               /\ ~NamesHost(request.origin, request.host)
               /\ ~NamesHost(request.referer, request.host)
               /\ ~(is_development
                      /\ (Contains(HeaderGet(request.host, ""), "localhost")
                             \/ Contains(HeaderGet(request.host, ""), "127.0.0.1")))
       IN  IF foreign THEN mw[1].status = 403 /\ ~mw[1].reached_route
           ELSE mw[1].reached_route

\* C25: a request the cross-origin guard rejects is answered 403 without its
\* route being called, starts no pageview write and leaves the pending writes
\* and the stored events as they were; a pageview write is only ever started
\* by a request that reached its route.
C25_RejectedRequestLeavesNoPageview ==
    [][/\ (mw = <<>> /\ mw' # <<>> /\ ~mw'[1].reached_route)
             => /\ mw'[1].status = 403 /\ mw'[1].outcome = "response"
                /\ mw'[1].task = <<>>
                /\ tasks' = tasks /\ scheduled' = scheduled /\ pageviews' = pageviews
       /\ (scheduled' # scheduled \/ Len(tasks') > Len(tasks))
             => (mw' # <<>> /\ mw'[1].reached_route /\ mw'[1].status < 400)]_vars

\* with an event stored, a partial-page GET of /admin without Origin and
\* Referer was rejected and started no write
C25_Witness ==
    /\ mw # <<>> /\ mw[1].request.method = "GET" /\ mw[1].request.path = "/admin"
    /\ mw[1].request.hx_request = <<"true">>
    /\ ~mw[1].reached_route /\ mw[1].status = 403 /\ mw[1].task = <<>>
    /\ Len(pageviews) = 1 /\ tasks = <<>> /\ scheduled = 1

(***************************************************************************)
(* Audit trail of the admin API.                                           *)
(***************************************************************************)
\* the table of an entity, and what differs between two of its states
EntityTable(entity, post_table, project_table) ==
    IF entity = "post" THEN post_table ELSE project_table

ChangedRows(before, after) ==
    {id \in DOMAIN before \cup DOMAIN after :
        id \notin DOMAIN before \/ id \notin DOMAIN after \/ before[id] # after[id]}

\* C27: a mutation answered 401, 403 or 404 changes no table and writes no
\* audit-log row; a handler past its authorisation commits a change of exactly
\* the row (or file) its audit-log row will name, the actor being the
\* administrator its cookie resolves to (a created row is new, an updated row
\* stays, a deleted row is gone), and writes no audit-log row in that commit;
\* it answers success in the later step that appends exactly one audit-log
\* row with that actor, entity and entity id and changes nothing else; and no
\* other step writes an audit-log row.
C27_OneAuditRowAfterEachMutation ==
    [][/\ \A c \in CallIds :
             /\ (calls[c] = Idle /\ calls'[c].pc = "done"
                     /\ calls'[c].status \in {401, 403, 404})
                    => UNCHANGED <<posts, projects, uploads, uuids, audit_logs, comments,
                                   users>>
             /\ (calls[c] = Idle /\ calls'[c].pc = "audit")
                    => /\ audit_logs' = audit_logs
                       /\ calls'[c].actor # <<>>
                       /\ calls'[c].actor[1] \in Resolves(calls'[c].cookie)
                       /\ users[calls'[c].actor[1]].is_admin
                       /\ IF calls'[c].op = "files_upload"
                          THEN /\ uploads' = uploads + 1
                               /\ calls'[c].entity_id = uploads'
                               /\ UNCHANGED <<posts, projects>>
                          ELSE /\ uploads' = uploads
                               /\ ChangedRows(posts, posts')
                                      \subseteq (IF EntityOf(calls'[c].op) = "post"
                                                 THEN {calls'[c].entity_id} ELSE {})
                               /\ ChangedRows(projects, projects')
                                      \subseteq (IF EntityOf(calls'[c].op) = "project"
                                                 THEN {calls'[c].entity_id} ELSE {})
                               /\ (calls'[c].entity_id \in DOMAIN
                                       EntityTable(EntityOf(calls'[c].op), posts, projects))
                                      = (ActionOf(calls'[c].op) # "create")
                               /\ (calls'[c].entity_id \in DOMAIN
                                       EntityTable(EntityOf(calls'[c].op), posts', projects'))
                                      = (ActionOf(calls'[c].op) # "delete")
             /\ (calls[c].pc # "done" /\ calls'[c].pc = "done" /\ calls'[c].status = 200)
                    => /\ calls[c].pc = "audit"
                       /\ Len(audit_logs') = Len(audit_logs) + 1
                       /\ SubSeq(audit_logs', 1, Len(audit_logs)) = audit_logs
                       /\ audit_logs'[Len(audit_logs')].actor_user_id = calls[c].actor
                       /\ audit_logs'[Len(audit_logs')].entity = EntityOf(calls[c].op)
                       /\ audit_logs'[Len(audit_logs')].entity_id = calls[c].entity_id
                       /\ audit_logs'[Len(audit_logs')].action = ActionOf(calls[c].op)
                       /\ UNCHANGED <<posts, projects, uploads>>
       /\ audit_logs' # audit_logs
             => \E c \in CallIds :
                    calls[c].pc = "audit" /\ calls'[c].pc = "done"]_vars

\* on one connection the deletion of a seeded post has been answered with
\* success and is in the audit log, while on the other a project has been
\* created and its audit-log row is still to be written
C27_Witness ==
    /\ calls[1].pc = "done" /\ calls[1].op = "delete_post" /\ calls[1].status = 200
    /\ 1 \notin DOMAIN posts
    /\ Len(audit_logs) = 1
    /\ audit_logs[1].entity = "post" /\ audit_logs[1].entity_id = 1
    /\ audit_logs[1].actor_user_id = <<AdminId>>
    /\ calls[2].pc = "audit" /\ calls[2].op = "create_project"
    /\ calls[2].entity_id \in DOMAIN projects

(***************************************************************************)
(* seed_db at every application start.                                     *)
(***************************************************************************)
\* C28: a process start on the store that seed_db produced from an empty
\* database adds and changes no row of the posts, projects, comments,
\* settings and users tables.
C28_SeedDbIsIdempotent ==
    [][(Database = seed_db(EmptyDatabase) /\ secret' # secret)
           => /\ posts' = posts
              /\ projects' = projects
              /\ comments' = comments
              /\ settings' = settings
              /\ users' = users]_vars

(***************************************************************************)
(* The audit event stream.                                                 *)
(***************************************************************************)
\* the id of the audit-log row a stream emitted last, <<>> before the first
LastEmitted(events) ==
    LET audits == SelectSeq(events, LAMBDA e : e.type = "audit")
    IN  IF audits = <<>> THEN <<>> ELSE <<audits[Len(audits)].id>>

\* C30: a poll of a stream whose client is still there emits exactly one
\* event, the audit event of the newest audit-log row when there is one and
\* its id is not the id the stream emitted last, a heartbeat otherwise; a poll
\* that finds the client gone ends the stream and emits nothing, and nothing
\* is emitted outside a poll or after the end; so no stream carries the same
\* audit-log row in two audit events in a row.
C30_EachPollEmitsOneEvent ==
    /\ [](\A c \in CallIds :
             "events" \in DOMAIN calls[c]
                 => \A i \in 1..(Len(calls[c].events) - 1) :
                        ~(/\ calls[c].events[i].type = "audit"
                          /\ calls[c].events[i + 1].type = "audit"
                          /\ calls[c].events[i].id = calls[c].events[i + 1].id))
    /\ [][\A c \in CallIds :
             /\ (calls[c].pc = "stream" /\ calls'[c] # calls[c])
                    => \/ /\ ~calls[c].disconnected
                          /\ calls'[c] = [calls[c] EXCEPT !.disconnected = TRUE]
                       \/ /\ calls[c].disconnected
                          /\ calls'[c].pc = "done"
                          /\ calls'[c].events = calls[c].events
                       \/ /\ ~calls[c].disconnected
                          /\ calls'[c].pc = "stream"
                          /\ ~calls'[c].disconnected
                          /\ calls'[c].events =
                                 Append(calls[c].events,
                                        IF /\ LatestAudit # <<>>
                                           /\ <<LatestAudit[1].id>>
                                                  # LastEmitted(calls[c].events)
                                        THEN AuditEvent(LatestAudit[1])
                                        ELSE Heartbeat)
             /\ (calls[c].pc = "done" /\ "events" \in DOMAIN calls[c])
                    => calls'[c] \in {calls[c], Idle}]_vars

\* a stream that emitted the first audit-log row, a heartbeat and then the
\* second audit-log row has ended after its client went away
C30_Witness ==
    /\ Len(audit_logs) = 2
    /\ calls[1].pc = "done" /\ calls[1].op = "sse_audit_stream"
    /\ calls[1].status = 200
    /\ calls[1].events = <<AuditEvent(audit_logs[1]), Heartbeat, AuditEvent(audit_logs[2])>>

(***************************************************************************)
(* The project list of the home page.                                      *)
(***************************************************************************)
\* C23: the project cards of a home page are stored projects, each at most
\* once; they are at most home_projects_count; no featured project comes
\* after one that is not featured; in featured-only mode all are featured;
\* and when that mode is off and at least home_projects_count projects are
\* stored, they are exactly home_projects_count.
C23_HomeProjectList ==
    [][(resp.op # "home" /\ resp'.op = "home")
           => LET list == resp'.body
                  count == settings[1].home_projects_count
              IN  /\ settings # <<>>
                  /\ \A i \in 1..Len(list) : list[i] \in DOMAIN projects
                  /\ \A i, j \in 1..Len(list) : i # j => list[i] # list[j]
                  /\ Len(list) <= count
                  /\ \A i, j \in 1..Len(list) :
                         (i < j /\ projects[list[j]].featured) => projects[list[i]].featured
                  /\ settings[1].home_projects_featured_only
                         => \A i \in 1..Len(list) : projects[list[i]].featured
                  /\ (/\ ~settings[1].home_projects_featured_only
                      /\ Cardinality(DOMAIN projects) >= count)
                         => Len(list) = count]_vars

\* with room for three cards, four featured projects and featured-only mode
\* off, the home page shows three of the featured projects
C23_Witness ==
    /\ resp.op = "home"
    /\ settings = <<[home_projects_count |-> 3, home_projects_featured_only |-> FALSE]>>
    /\ Cardinality({id \in DOMAIN projects : projects[id].featured}) = 4
    /\ Len(resp.body) = 3
    /\ \A i \in 1..3 : resp.body[i] \in DOMAIN projects /\ projects[resp.body[i]].featured

(***************************************************************************)
(* Reactions.                                                              *)
(***************************************************************************)
\* the add_reaction calls for a pair that have completed, and those under way
CompletedReactions(post_id, type) ==
    {c \in ReactionCalls :
        /\ calls[c].pc = "done" /\ calls[c].status = 200
        /\ calls[c].post_id = post_id /\ calls[c].type = type}

ReactionsInProgress(post_id, type) ==
    {c \in ReactionCalls :
        /\ calls[c].pc = "commit"
        /\ calls[c].post_id = post_id /\ calls[c].type = type}

\* C26: when n >= 1 add_reaction calls for a post and a reaction type have
\* completed and none is under way, the reactions table holds exactly one row
\* for the pair and its count is n.
C26_OneRowCountingEveryReaction ==
    \A post_id \in DOMAIN posts, type \in {"like", "love"} :
        LET n == Cardinality(CompletedReactions(post_id, type))
        IN  (n >= 1 /\ ReactionsInProgress(post_id, type) = {})
                => /\ Cardinality(ReactionsOf(post_id, type)) = 1
                   /\ \A i \in ReactionsOf(post_id, type) : reactions[i].count = n
====
